---- MODULE Spec2Model ----
(***************************************************************************)
(* A model of the Aralia-to-Open-PSA-MEF translator (aralia.py and         *)
(* fault_tree.py).                                                         *)
(*                                                                         *)
(* Text is modelled as sequences of one-character strings.  The regular    *)
(* expressions of aralia.py are written as syntax trees and matched by a   *)
(* backtracking matcher with Python's priorities (greedy repetition,       *)
(* ordered alternation, numbered capture groups).  Objects (gates and      *)
(* events) live in a heap addressed by the order of their creation, so     *)
(* that "the same instance" is distinguishable from "an equal name".       *)
(***************************************************************************)
EXTENDS Integers, Sequences, FiniteSets, TLC

VARIABLES
    pc,             \* position of parse_input / of the caller
    input,          \* the lines read so far (the file's content up to here)
    multi_top,      \* the multi_top argument of parse_input
    line_num,       \* parse_input's line counter
    heap,           \* every object created, in creation order
    ft,             \* the LateBindingFaultTree's own fields
    err,            \* the exception that left parse_input, or NoError
    sorted_gates,   \* what toposort_gates returned
    f_in,           \* get_formula's argument under SpecFormula: how it was built
    f_text,         \* ... and its text
    f_out,          \* get_formula's outcome under SpecFormula
    nest,           \* the nest argument of FaultTree.to_xml
    mef_xml         \* what FaultTree.to_xml returned, element by element

vars == <<pc, input, multi_top, line_num, heap, ft, err, sorted_gates,
          f_in, f_text, f_out, nest, mef_xml>>

-----------------------------------------------------------------------------
(* Characters and character classes.                                        *)

Lower == {"a","b","c","d","e","f","g","h","i","j","k","l","m",
          "n","o","p","q","r","s","t","u","v","w","x","y","z"}
Upper == {"A","B","C","D","E","F","G","H","I","J","K","L","M",
          "N","O","P","Q","R","S","T","U","V","W","X","Y","Z"}
Digit == {"0","1","2","3","4","5","6","7","8","9"}
\* \w of Python's re on ASCII text
Word == Lower \cup Upper \cup Digit \cup {"_"}
\* \s, and what str.strip() removes
Space == {" ", "\t", "\n", "\r", "\f"}

\* int() of one decimal digit
DigitValue(c) ==
    CASE c = "0" -> 0 [] c = "1" -> 1 [] c = "2" -> 2 [] c = "3" -> 3
      [] c = "4" -> 4 [] c = "5" -> 5 [] c = "6" -> 6 [] c = "7" -> 7
      [] c = "8" -> 8 [] c = "9" -> 9

DigitChar(n) ==
    CASE n = 0 -> "0" [] n = 1 -> "1" [] n = 2 -> "2" [] n = 3 -> "3"
      [] n = 4 -> "4" [] n = 5 -> "5" [] n = 6 -> "6" [] n = 7 -> "7"
      [] n = 8 -> "8" [] n = 9 -> "9"

\* str(n) of a number n >= 0
RECURSIVE Str(_)
Str(n) == IF n < 10 THEN <<DigitChar(n)>> ELSE Str(n \div 10) \o <<DigitChar(n % 10)>>

-----------------------------------------------------------------------------
(* str methods.                                                             *)

RECURSIVE LStripSet(_, _)
LStripSet(s, cs) ==
    IF s # <<>> /\ Head(s) \in cs THEN LStripSet(Tail(s), cs) ELSE s

RECURSIVE RStripSet(_, _)
RStripSet(s, cs) ==
    IF s # <<>> /\ s[Len(s)] \in cs
    THEN RStripSet(SubSeq(s, 1, Len(s) - 1), cs)
    ELSE s

\* str.strip()
Strip(s) == RStripSet(LStripSet(s, Space), Space)

\* str.startswith(p)
StartsWith(s, p) == Len(s) >= Len(p) /\ SubSeq(s, 1, Len(p)) = p

\* position of the first occurrence of sep in s at or after i, 0 if none
RECURSIVE FindFrom(_, _, _)
FindFrom(s, sep, i) ==
    IF i + Len(sep) - 1 > Len(s) THEN 0
    ELSE IF SubSeq(s, i, i + Len(sep) - 1) = sep THEN i
    ELSE FindFrom(s, sep, i + 1)

\* str.split(sep), sep not empty
RECURSIVE Split(_, _)
Split(s, sep) ==
    LET at == FindFrom(s, sep, 1) IN
    IF at = 0 THEN <<s>>
    ELSE <<SubSeq(s, 1, at - 1)>>
         \o Split(SubSeq(s, at + Len(sep), Len(s)), sep)

\* set(list)
Range(q) == {q[i] : i \in 1..Len(q)}

-----------------------------------------------------------------------------
(* Regular expressions: syntax trees and a backtracking matcher.           *)

Cls(set)        == [t |-> "cls", set |-> set, neg |-> FALSE]
NotCls(set)     == [t |-> "cls", set |-> set, neg |-> TRUE]
Chr(c)          == Cls({c})
Cat(rs)         == [t |-> "cat", rs |-> rs]
Alt(rs)         == [t |-> "alt", rs |-> rs]
Rep(r, lo, hi)  == [t |-> "rep", r |-> r, lo |-> lo, hi |-> hi]
Star(r)         == Rep(r, 0, -1)
Plus(r)         == Rep(r, 1, -1)
Opt(r)          == Rep(r, 0, 1)
Grp(n, r)       == [t |-> "grp", n |-> n, r |-> r]
Bol             == [t |-> "bol"]
Eol             == [t |-> "eol"]
Lit(q)          == Cat([i \in 1..Len(q) |-> Chr(q[i])])

\* group numbers a pattern may use; <<0, 0>> is a group that did not take part
NoGroup == <<0, 0>>
NoCaps  == [n \in 1..9 |-> NoGroup]

RECURSIVE M(_, _, _), CatM(_, _, _, _), AltM(_, _, _, _), RepM(_, _, _, _),
          Each(_, _, _, _, _)

\* The matcher.  M(re, s, st) is the sequence of states [pos, caps] in which
\* re can end when started in state st, in the order a backtracking engine
\* tries them.
M(re, s, st) ==
    CASE re.t = "cls" ->
            IF st.pos <= Len(s) /\ ((s[st.pos] \in re.set) # re.neg)
            THEN <<[st EXCEPT !.pos = st.pos + 1]>>
            ELSE <<>>
      [] re.t = "bol" -> IF st.pos = 1 THEN <<st>> ELSE <<>>
      [] re.t = "eol" ->
            IF st.pos = Len(s) + 1 \/ (st.pos = Len(s) /\ s[st.pos] = "\n")
            THEN <<st>> ELSE <<>>
      [] re.t = "cat" -> CatM(re.rs, 1, s, <<st>>)
      [] re.t = "alt" -> AltM(re.rs, 1, s, st)
      [] re.t = "rep" -> RepM(re, s, 0, st)
      [] re.t = "grp" ->
            LET ends == M(re.r, s, st) IN
            [k \in 1..Len(ends) |->
                [ends[k] EXCEPT !.caps[re.n] = <<st.pos, ends[k].pos>>]]

\* the concatenation of what(sts[k]) for k = i.., in order; what is
\* "cat" (continue a concatenation at element j) or "rep" (next repetition j)
Each(sts, i, re, s, j) ==
    IF i > Len(sts) THEN <<>>
    ELSE (IF re.t = "rep" THEN RepM(re, s, j, sts[i])
          ELSE M(re.rs[j], s, sts[i]))
         \o Each(sts, i + 1, re, s, j)

CatM(rs, j, s, sts) ==
    IF j > Len(rs) THEN sts
    ELSE CatM(rs, j + 1, s, Each(sts, 1, [t |-> "cat", rs |-> rs], s, j))

AltM(rs, j, s, st) ==
    IF j > Len(rs) THEN <<>>
    ELSE M(rs[j], s, st) \o AltM(rs, j + 1, s, st)

\* greedy: one more repetition first, then stopping here
RepM(re, s, n, st) ==
    LET step == IF re.hi = -1 \/ n < re.hi
                THEN SelectSeq(M(re.r, s, st), LAMBDA x : x.pos > st.pos)
                ELSE <<>>
    IN  Each(step, 1, re, s, n + 1)
        \o (IF n >= re.lo THEN <<st>> ELSE <<>>)

\* re.match(pattern, s): the first way to match at the start of s, as
\* [ok, caps]
Match(re, s) ==
    LET ends == M(re, s, [pos |-> 1, caps |-> NoCaps]) IN
    IF ends = <<>> THEN [ok |-> FALSE, caps |-> NoCaps]
    ELSE [ok |-> TRUE, caps |-> ends[1].caps]

\* match.group(n)
Group(m, s, n) == SubSeq(s, m.caps[n][1], m.caps[n][2] - 1)

-----------------------------------------------------------------------------
(* The patterns of aralia.py.  A group's number is its number in Python:   *)
(* the parenthesis inside _NAME_SIG is a capture group of its own, so      *)
(* NameSig takes the number that group has in the enclosing pattern.       *)

\* a name pattern that takes hyphens wherever it takes word characters
NameSig_free_hyphen(n) ==
    Cat(<<Cls(Lower \cup Upper), Star(Cls(Word \cup {"-"}))>>)

\* _NAME_SIG = r"[a-zA-Z]\w*(-\w+)*"
NameSig(n) ==
    Cat(<<Cls(Lower \cup Upper), Star(Cls(Word)),
          Star(Grp(n, Cat(<<Chr("-"), Plus(Cls(Word))>>)))>>)

\* _LITERAL = r"~?%s" % _NAME_SIG
Literal(n) == Cat(<<Opt(Chr("~")), NameSig(n)>>)

WS == Star(Cls(Space))

\* _RE_FT_NAME = ^(NAME)$
RE_FT_NAME == Cat(<<Bol, Grp(1, NameSig(2)), Eol>>)

\* _RE_PROB = ^p\(\s*(?P<name>NAME)\s*\)\s*=\s*(?P<prob>1|0|0\.\d+)$
RE_PROB ==
    Cat(<<Bol, Chr("p"), Chr("("), WS, Grp(1, NameSig(2)), WS, Chr(")"),
          WS, Chr("="), WS,
          Grp(3, Alt(<<Chr("1"), Chr("0"),
                       Cat(<<Chr("0"), Chr("."), Plus(Cls(Digit))>>)>>)),
          Eol>>)

\* _RE_STATE = ^s\(\s*(?P<name>NAME)\s*\)\s*=\s*(?P<state>true|false)$
RE_STATE ==
    Cat(<<Bol, Chr("s"), Chr("("), WS, Grp(1, NameSig(2)), WS, Chr(")"),
          WS, Chr("="), WS,
          Grp(3, Alt(<<Lit(<<"t","r","u","e">>), Lit(<<"f","a","l","s","e">>)>>)),
          Eol>>)

\* _RE_GATE = ^(?P<name>NAME)\s*:=\s*(?P<formula>.+)$
RE_GATE ==
    Cat(<<Bol, Grp(1, NameSig(2)), WS, Chr(":"), Chr("="), WS,
          Grp(3, Plus(NotCls({"\n"}))), Eol>>)

\* _RE_PAREN = \(([^()]+)\)$
RE_PAREN ==
    Cat(<<Chr("("), Grp(1, Plus(NotCls({"(", ")"}))), Chr(")"), Eol>>)

\* ({0}(\s*SEP\s*{0}\s*)+)$ : _RE_AND and _RE_OR
Chain(sep) ==
    Cat(<<Grp(1, Cat(<<Literal(2),
                       Plus(Grp(3, Cat(<<WS, Lit(sep), WS, Literal(4), WS>>)))>>)),
          Eol>>)
RE_AND == Chain(<<"&">>)
RE_OR  == Chain(<<"|">>)

\* a two-literal pattern that goes on over further literals
Pair_chained(sep) == Chain(sep)

\* ({0}\s*SEP\s*{0})$ : _RE_XOR, _RE_IMPLY and _RE_IFF
Pair(sep) ==
    Cat(<<Grp(1, Cat(<<Literal(2), WS, Lit(sep), WS, Literal(3)>>)), Eol>>)
RE_XOR   == Pair(<<"^">>)
RE_IMPLY == Pair(<<"=", ">">>)
RE_IFF   == Pair(<<"<", "=", ">">>)

\* _ARGS_LIST = \[(\s*{0}(\s*,\s*{0}\s*){2,})\], its first group numbered n
ARGS_LIST(n) ==
    Cat(<<Chr("["),
          Grp(n, Cat(<<WS, Literal(n + 1),
                       Rep(Grp(n + 2, Cat(<<WS, Chr(","), WS, Literal(n + 3), WS>>)),
                           2, -1)>>)),
          Chr("]")>>)

\* _RE_ATLEAST = @\(\s*([2-9])\s*,\s*ARGS\s*\)\s*$
RE_ATLEAST ==
    Cat(<<Chr("@"), Chr("("), WS, Grp(1, Cls({"2","3","4","5","6","7","8","9"})),
          WS, Chr(","), WS, ARGS_LIST(2), WS, Chr(")"), WS, Eol>>)

\* _RE_CARDINALITY = #\(\s*(?P<min>\d)\s*,\s*(?P<max>\d)\s*,\s*ARGS\s*\)\s*$
RE_CARDINALITY ==
    Cat(<<Chr("#"), Chr("("), WS, Grp(1, Cls(Digit)), WS, Chr(","), WS,
          Grp(2, Cls(Digit)), WS, Chr(","), WS, ARGS_LIST(3), WS, Chr(")"),
          WS, Eol>>)

\* _RE_NOT = ~\(\s*(LITERAL)\s*\)$
RE_NOT ==
    Cat(<<Chr("~"), Chr("("), WS, Grp(1, Literal(2)), WS, Chr(")"), Eol>>)

\* _RE_NULL = (LITERAL)$
RE_NULL == Cat(<<Grp(1, Literal(2)), Eol>>)

-----------------------------------------------------------------------------
(* Exceptions and the formula recognizer.                                   *)

\* an absent number (Python's None for min_num and max_num)
NoNum == -1

\* An exception: its class, the fixed part of its message, the part of the
\* message computed from data, and the line parse_input appended to it
\* (line_num 0: none appended).
NoError == [type |-> "none", msg |-> "", detail |-> <<>>,
            line_num |-> 0, line |-> <<>>]
Raise(type, msg, detail) ==
    [type |-> type, msg |-> msg, detail |-> detail, line_num |-> 0, line |-> <<>>]

\* what get_arguments and get_formula hand back: the value returned, or the
\* exception raised
Returned(operator, arguments, min_num, max_num) ==
    [exc |-> NoError, operator |-> operator, arguments |-> arguments,
     min_num |-> min_num, max_num |-> max_num]
Raised(e) ==
    [exc |-> e, operator |-> "", arguments |-> <<>>,
     min_num |-> NoNum, max_num |-> NoNum]

\* get_formula not called
NotCalled == [exc |-> NoError, operator |-> "pending", arguments |-> <<>>,
              min_num |-> NoNum, max_num |-> NoNum]

\* a duplicate test that compares the names and forgets the complement marker
HasRepeated_bare(arguments) ==
    Len(arguments) > Cardinality({LStripSet(arguments[i], {"~"}) : i \in 1..Len(arguments)})

\* the duplicate test of get_arguments: len(arguments) > len(set(arguments))
HasRepeated(arguments) == Len(arguments) > Cardinality(Range(arguments))

\* get_arguments(arguments_string, splitter): [exc, arguments]
get_arguments(arguments_string, splitter) ==
    LET parts     == Split(Strip(arguments_string), splitter)
        arguments == [i \in 1..Len(parts) |-> Strip(parts[i])]
    IN  IF HasRepeated(arguments)
        THEN [exc |-> Raise("FaultTreeError", "Repeated arguments", arguments_string),
              arguments |-> <<>>]
        ELSE [exc |-> NoError, arguments |-> arguments]

\* operator with split arguments and no numbers
Plain(operator, arguments_string, splitter) ==
    LET a == get_arguments(arguments_string, splitter) IN
    IF a.exc # NoError THEN Raised(a.exc)
    ELSE Returned(operator, a.arguments, NoNum, NoNum)

\* a k/n test that lets k = n through
AtleastInvalid_gt(min_num, arguments) == min_num > Len(arguments)

\* the atleast branch of get_formula: k/n test
AtleastInvalid(min_num, arguments) == min_num >= Len(arguments)

\* an l/h test that forgets the argument count
CardinalityInvalid_min_only(min_num, max_num, arguments) == min_num > max_num

\* the cardinality branch of get_formula: l/h test
CardinalityInvalid(min_num, max_num, arguments) ==
    min_num > max_num \/ max_num > Len(arguments)

get_formula(text) ==
    LET line0 == Strip(text)
        paren == Match(RE_PAREN, line0)
        line  == IF paren.ok THEN Strip(Group(paren, line0, 1)) ELSE line0
        m(re) == Match(re, line)
        g(re, n) == Group(m(re), line, n)
    IN  IF m(RE_OR).ok THEN Plain("or", g(RE_OR, 1), <<"|">>)
        ELSE IF m(RE_XOR).ok THEN Plain("xor", g(RE_XOR, 1), <<"^">>)
        ELSE IF m(RE_AND).ok THEN Plain("and", g(RE_AND, 1), <<"&">>)
        ELSE IF m(RE_ATLEAST).ok THEN
            LET a       == get_arguments(g(RE_ATLEAST, 2), <<",">>)
                min_num == DigitValue(g(RE_ATLEAST, 1)[1])
            IN  IF a.exc # NoError THEN Raised(a.exc)
                ELSE IF AtleastInvalid(min_num, a.arguments)
                THEN Raised(Raise("FaultTreeError",
                                  "Invalid k/n for the combination formula", line))
                ELSE Returned("atleast", a.arguments, min_num, NoNum)
        ELSE IF m(RE_NOT).ok THEN Returned("not", <<Strip(g(RE_NOT, 1))>>, NoNum, NoNum)
        ELSE IF m(RE_NULL).ok THEN Returned("null", <<Strip(g(RE_NULL, 1))>>, NoNum, NoNum)
        ELSE IF m(RE_IMPLY).ok THEN Plain("imply", g(RE_IMPLY, 1), <<"=", ">">>)
        ELSE IF m(RE_IFF).ok THEN Plain("iff", g(RE_IFF, 1), <<"<", "=", ">">>)
        ELSE IF m(RE_CARDINALITY).ok THEN
            LET a       == get_arguments(g(RE_CARDINALITY, 3), <<",">>)
                min_num == DigitValue(g(RE_CARDINALITY, 1)[1])
                max_num == DigitValue(g(RE_CARDINALITY, 2)[1])
            IN  IF a.exc # NoError THEN Raised(a.exc)
                ELSE IF CardinalityInvalid(min_num, max_num, a.arguments)
                THEN Raised(Raise("FaultTreeError",
                                  "Invalid l/h for the cardinality formula", line))
                ELSE Returned("cardinality", a.arguments, min_num, max_num)
        ELSE Raised(Raise("ParsingError", "Cannot interpret the formula", line))


-----------------------------------------------------------------------------
(* Objects.  Every object has all fields; those its class lacks keep their *)
(* defaults.  A reference to an object is its index in the heap.           *)

\* Python's None for a name and for top_gates (neither is ever empty when set)
None == <<>>

\* Event.__init__, BasicEvent.__init__, HouseEvent.__init__, Gate.__init__,
\* LateBindingGate.__init__
NewObject(kind, name) ==
    [kind |-> kind, name |-> name, parents |-> {},
     value |-> <<>>,
     mark |-> "None", operator |-> "", min_num |-> NoNum, max_num |-> NoNum,
     event_arguments |-> <<>>,
     g_arguments |-> {}, b_arguments |-> {}, h_arguments |-> {},
     u_arguments |-> {}, complement_arguments |-> {},
     g_order |-> <<>>, b_order |-> <<>>, h_order |-> <<>>, u_order |-> <<>>]

Event(name) == NewObject("Event", name)
BasicEvent(name, prob) == [NewObject("BasicEvent", name) EXCEPT !.value = prob]
HouseEvent(name, state) == [NewObject("HouseEvent", name) EXCEPT !.value = state]
LateBindingGate(name, operator, min_num, max_num) ==
    [NewObject("Gate", name) EXCEPT
        !.operator = operator, !.min_num = min_num, !.max_num = max_num]

\* Event.is_orphan
is_orphan(o) == o.parents = {}

\* FaultTree.__init__ and LateBindingFaultTree.__init__; the four name
\* tables are functions from names to references
NewFaultTree ==
    [name |-> None, multi_top |-> FALSE, top_gates |-> None,
     gates |-> <<>>, basic_events |-> <<>>, house_events |-> <<>>,
     t_gates |-> <<>>, t_basic_events |-> <<>>, t_house_events |-> <<>>,
     t_undef_events |-> <<>>]

\* name in dict
In(name, table) == name \in DOMAIN table
\* dict[name] = ref
Put(table, name, ref) == (name :> ref) @@ table

\* the outcome of an operation on the tree: the heap and tree it leaves and
\* the exception it raised, if any
Outcome(h, t, exc) == [heap |-> h, ft |-> t, exc |-> exc]

\* a redefinition check that forgets the house events
Redefined_no_house(t, name) ==
    In(name, t.t_basic_events) \/ In(name, t.t_gates)

\* LateBindingFaultTree.__check_redefinition: TRUE when it raises
Redefined(t, name) ==
    In(name, t.t_basic_events) \/ In(name, t.t_gates) \/ In(name, t.t_house_events)

RedefinitionError(name) ==
    Raise("FaultTreeError", "Redefinition of an event", name)

add_basic_event(h, t, name, prob) ==
    IF Redefined(t, name) THEN Outcome(h, t, RedefinitionError(name))
    ELSE LET ref == Len(h) + 1 IN
         Outcome(Append(h, BasicEvent(name, prob)),
                 [t EXCEPT !.t_basic_events = Put(@, name, ref),
                           !.basic_events = Append(@, ref)],
                 NoError)

add_house_event(h, t, name, state) ==
    IF Redefined(t, name) THEN Outcome(h, t, RedefinitionError(name))
    ELSE LET ref == Len(h) + 1 IN
         Outcome(Append(h, HouseEvent(name, state)),
                 [t EXCEPT !.t_house_events = Put(@, name, ref),
                           !.house_events = Append(@, ref)],
                 NoError)

\* an add_gate that records the gate before it checks the name
add_gate_record_first(h, t, name, operator, arguments, min_num, max_num) ==
    LET ref  == Len(h) + 1
        gate == [LateBindingGate(name, operator, min_num, max_num)
                   EXCEPT !.event_arguments = arguments]
    IN  Outcome(Append(h, gate),
                [t EXCEPT !.t_gates = Put(@, name, ref), !.gates = Append(@, ref)],
                IF Redefined(t, name) THEN RedefinitionError(name) ELSE NoError)

add_gate(h, t, name, operator, arguments, min_num, max_num) ==
    IF Redefined(t, name) THEN Outcome(h, t, RedefinitionError(name))
    ELSE LET ref  == Len(h) + 1
             gate == [LateBindingGate(name, operator, min_num, max_num)
                        EXCEPT !.event_arguments = arguments]
         IN  Outcome(Append(h, gate),
                     [t EXCEPT !.t_gates = Put(@, name, ref),
                               !.gates = Append(@, ref)],
                     NoError)

-----------------------------------------------------------------------------
(* interpret_line.                                                          *)

\* The matching half of interpret_line: which branch the line takes and
\* what the branch extracts from it.
Classify(text) ==
    LET line  == Strip(text)
        gate  == Match(RE_GATE, line)
        prob  == Match(RE_PROB, line)
        state == Match(RE_STATE, line)
        ftn   == Match(RE_FT_NAME, line)
        class(branch, name, value, formula) ==
            [branch |-> branch, name |-> name, value |-> value,
             formula |-> formula]
    IN  IF line = <<>> THEN class("blank", <<>>, <<>>, NotCalled)
        ELSE IF gate.ok
            THEN class("gate", Group(gate, line, 1), <<>>,
                       get_formula(Group(gate, line, 3)))
        ELSE IF prob.ok
            THEN class("prob", Group(prob, line, 1), Group(prob, line, 3), NotCalled)
        ELSE IF state.ok
            THEN class("state", Group(state, line, 1), Group(state, line, 3),
                       NotCalled)
        ELSE IF ftn.ok
            THEN class("ft_name", Group(ftn, line, 1), <<>>, NotCalled)
        ELSE class("unknown", <<>>, <<>>, NotCalled)


\* a test of the tree name that never finds it set
NameIsSet_never(t) == FALSE

\* interpret_line's test of the tree name: if fault_tree.name
NameIsSet(t) == t.name # None

\* The action half of interpret_line, on a line already classified.
Interpret(h, t, c, text) ==
    CASE c.branch = "blank" -> Outcome(h, t, NoError)
      [] c.branch = "gate" ->
            IF c.formula.exc.type # "none" THEN Outcome(h, t, c.formula.exc)
            ELSE add_gate(h, t, c.name, c.formula.operator, c.formula.arguments,
                          c.formula.min_num, c.formula.max_num)
      [] c.branch = "prob" -> add_basic_event(h, t, c.name, c.value)
      [] c.branch = "state" -> add_house_event(h, t, c.name, c.value)
      [] c.branch = "ft_name" ->
            IF NameIsSet(t)
            THEN Outcome(h, t, Raise("FormatError",
                                     "Redefinition of the fault tree name",
                                     <<t.name, Strip(text)>>))
            ELSE Outcome(h, [t EXCEPT !.name = c.name], NoError)
      [] c.branch = "unknown" ->
            Outcome(h, t, Raise("ParsingError", "Cannot interpret the line.", <<>>))

-----------------------------------------------------------------------------
(* The lines an input file is made of.                                      *)

\* longest input file, in lines
MaxLines == 4

N_g1 == <<"g", "1">>
N_g2 == <<"g", "2">>
N_g3 == <<"g", "3">>
N_e1 == <<"e", "1">>
N_h1 == <<"h", "1">>
N_u1 == <<"u", "1">>
N_FT == <<"F", "T">>
N_T2 == <<"T", "2">>

L_FT ==
    <<"F", "T">>  \* 'FT'
L_T2 ==
    <<"T", "2">>  \* 'T2'
L_g1_g2_and_e1 ==
    <<"g", "1", " ", ":", "=", " ", "g", "2", " ", "&", " ", "e", "1">>  \* 'g1 := g2 & e1'
L_g1_g2_or_g3 ==
    <<"g", "1", " ", ":", "=", " ", "g", "2", " ", "|", " ", "g", "3">>  \* 'g1 := g2 | g3'
L_g1_e1 ==
    <<"g", "1", " ", ":", "=", " ", "e", "1">>  \* 'g1 := e1'
L_g2_g3_and_e1 ==
    <<"g", "2", " ", ":", "=", " ", "g", "3", " ", "&", " ", "e", "1">>  \* 'g2 := g3 & e1'
L_g2_g1_and_e1 ==
    <<"g", "2", " ", ":", "=", " ", "g", "1", " ", "&", " ", "e", "1">>  \* 'g2 := g1 & e1'
L_g2_nu1_and_h1 ==
    <<"g", "2", " ", ":", "=", " ", "~", "u", "1", " ", "&", " ", "h", "1">>  \* 'g2 := ~u1 & h1'
L_g3_g2_and_u1 ==
    <<"g", "3", " ", ":", "=", " ", "g", "2", " ", "&", " ", "u", "1">>  \* 'g3 := g2 & u1'
L_g3_u1 ==
    <<"g", "3", " ", ":", "=", " ", "u", "1">>  \* 'g3 := u1'
L_p_e1 ==
    <<"p", "(", "e", "1", ")", " ", "=", " ", "0", ".", "5">>  \* 'p(e1) = 0.5'
L_s_h1 ==
    <<"s", "(", "h", "1", ")", " ", "=", " ", "t", "r", "u", "e">>  \* 's(h1) = true'
L_s_e1 ==
    <<"s", "(", "e", "1", ")", " ", "=", " ", "f", "a", "l", "s", "e">>  \* 's(e1) = false'
L_p_g1 ==
    <<"p", "(", "g", "1", ")", " ", "=", " ", "1">>  \* 'p(g1) = 1'
L_g1_e1_and_e1 ==
    <<"g", "1", " ", ":", "=", " ", "e", "1", " ", "&", " ", "e", "1">>  \* 'g1 := e1 & e1'
L_g1_eq_e1 ==
    <<"g", "1", " ", "=", " ", "e", "1">>  \* 'g1 = e1'
L_blank ==
    <<"\n">>  \* '\n'

Lines == {L_FT,
          L_T2,
          L_g1_g2_and_e1,
          L_g1_g2_or_g3,
          L_g1_e1,
          L_g2_g3_and_e1,
          L_g2_g1_and_e1,
          L_g2_nu1_and_h1,
          L_g3_g2_and_u1,
          L_g3_u1,
          L_p_e1,
          L_s_h1,
          L_s_e1,
          L_p_g1,
          L_g1_e1_and_e1,
          L_g1_eq_e1,
          L_blank}

-----------------------------------------------------------------------------
(* Lines with complemented arguments, one gate line per operator.          *)

K_g1_or ==
    <<"g", "1", " ", ":", "=", " ", "e", "1", " ", "|", " ", "~", "e", "2">>  \* 'g1 := e1 | ~e2'
K_g1_xor ==
    <<"g", "1", " ", ":", "=", " ", "e", "1", " ", "^", " ", "~", "e", "2">>  \* 'g1 := e1 ^ ~e2'
K_g1_and ==
    <<"g", "1", " ", ":", "=", " ", "e", "1", " ", "&", " ", "~", "e", "2">>  \* 'g1 := e1 & ~e2'
K_g1_imply ==
    <<"g", "1", " ", ":", "=", " ", "e", "1", " ", "=", ">", " ", "~", "e", "2">>  \* 'g1 := e1 => ~e2'
K_g1_iff ==
    <<"g", "1", " ", ":", "=", " ", "~", "e", "1", " ", "<", "=", ">", " ", "e", "2">>  \* 'g1 := ~e1 <=> e2'
K_g2_atleast ==
    <<"g", "2", " ", ":", "=", " ", "@", "(", "2", ",", " ", "[", "e", "1", ",", " ", "~", "e", "2", ",", " ", "~", "g", "1", "]", ")">>  \* 'g2 := @(2, [e1, ~e2, ~g1])'
K_g2_cardinality ==
    <<"g", "2", " ", ":", "=", " ", "#", "(", "1", ",", " ", "2", ",", " ", "[", "~", "e", "1", ",", " ", "e", "2", ",", " ", "g", "1", "]", ")">>  \* 'g2 := #(1, 2, [~e1, e2, g1])'
K_g3_null ==
    <<"g", "3", " ", ":", "=", " ", "~", "e", "2">>  \* 'g3 := ~e2'
K_g3_not ==
    <<"g", "3", " ", ":", "=", " ", "~", "(", "~", "e", "2", ")">>  \* 'g3 := ~(~e2)'
K_g3_cancel ==
    <<"g", "3", " ", ":", "=", " ", "~", "e", "2", " ", "&", " ", "e", "2">>  \* 'g3 := ~e2 & e2'
K_g3_gates ==
    <<"g", "3", " ", ":", "=", " ", "~", "g", "2", " ", "|", " ", "~", "u", "1", " ", "|", " ", "g", "1">>  \* 'g3 := ~g2 | ~u1 | g1'
K_p_e2 ==
    <<"p", "(", "e", "2", ")", " ", "=", " ", "0", ".", "1">>  \* 'p(e2) = 0.1'
K_s_e1 ==
    <<"s", "(", "e", "1", ")", " ", "=", " ", "t", "r", "u", "e">>  \* 's(e1) = true'

ComplementLines == {L_FT,
                    K_g1_or,
                    K_g1_xor,
                    K_g1_and,
                    K_g1_imply,
                    K_g1_iff,
                    K_g2_atleast,
                    K_g2_cardinality,
                    K_g3_null,
                    K_g3_not,
                    K_g3_cancel,
                    K_g3_gates,
                    K_p_e2,
                    K_s_e1}

-----------------------------------------------------------------------------
(* Lines with gates that name themselves, for cycles no top gate reaches.  *)

D_g2_self ==
    <<"g", "2", " ", ":", "=", " ", "g", "2", " ", "&", " ", "e", "1">>  \* 'g2 := g2 & e1'
D_g3_self ==
    <<"g", "3", " ", ":", "=", " ", "g", "3", " ", "|", " ", "u", "1">>  \* 'g3 := g3 | u1'
D_g3_self_g2 ==
    <<"g", "3", " ", ":", "=", " ", "g", "3", " ", "|", " ", "g", "2">>  \* 'g3 := g3 | g2'
D_g2_e1_u1 ==
    <<"g", "2", " ", ":", "=", " ", "e", "1", " ", "&", " ", "u", "1">>  \* 'g2 := e1 & u1'

DetachedLines == {L_FT,
                  L_g1_e1,
                  L_g1_g2_and_e1,
                  L_g2_g3_and_e1,
                  L_g3_g2_and_u1,
                  D_g2_self,
                  D_g3_self,
                  D_g3_self_g2,
                  D_g2_e1_u1}

\* every line's classification, computed once
ClassifiedLines == Lines \cup ComplementLines \cup DetachedLines

LineClass == [l \in ClassifiedLines |-> Classify(l)]

interpret_line(h, t, text) ==
    Interpret(h, t,
              IF text \in ClassifiedLines THEN LineClass[text] ELSE Classify(text),
              text)

-----------------------------------------------------------------------------
(* populate: resolution of the arguments.                                   *)

\* an add_argument that tests for Event first, the class of every argument
add_argument_event_first(h, g, a, complement) ==
    LET h1 == IF complement
              THEN [h EXCEPT ![g].complement_arguments = @ \cup {a}]
              ELSE h
        h2 == [h1 EXCEPT ![a].parents = @ \cup {g}]
    IN  [h2 EXCEPT ![g].u_arguments = @ \cup {a}]

\* Gate.add_argument, called on gate g with argument a
add_argument(h, g, a, complement) ==
    LET h1 == IF complement
              THEN [h EXCEPT ![g].complement_arguments = @ \cup {a}]
              ELSE h
        h2 == [h1 EXCEPT ![a].parents = @ \cup {g}]
    IN  CASE h[a].kind = "Gate" -> [h2 EXCEPT ![g].g_arguments = @ \cup {a}]
          [] h[a].kind = "BasicEvent" -> [h2 EXCEPT ![g].b_arguments = @ \cup {a}]
          [] h[a].kind = "HouseEvent" -> [h2 EXCEPT ![g].h_arguments = @ \cup {a}]
          [] OTHER -> [h2 EXCEPT ![g].u_arguments = @ \cup {a}]

\* a lookup of the undefined events that never finds one
Minted_never(t, event_name) == FALSE

\* populate's lookup of the undefined events: event_name in self.__undef_events
Minted(t, event_name) == In(event_name, t.t_undef_events)

\* a test of the complement marker that never sees it
IsComplement_never(event_arg) == FALSE

\* populate's test of the marker: event_arg.startswith("~")
IsComplement(event_arg) == StartsWith(event_arg, <<"~">>)

\* a name that keeps the complement marker
EventName_with_marker(event_arg) == event_arg

\* populate's name of a token: event_arg.lstrip("~")
EventName(event_arg) == LStripSet(event_arg, {"~"})

\* the body of populate's inner loop, for one argument token of gate g
Attach(h, t, g, event_arg) ==
    LET complement == IsComplement(event_arg)
        event_name == EventName(event_arg)
    IN  IF In(event_name, t.t_gates)
        THEN Outcome(add_argument(h, g, t.t_gates[event_name], complement), t, NoError)
        ELSE IF In(event_name, t.t_basic_events)
        THEN Outcome(add_argument(h, g, t.t_basic_events[event_name], complement),
                     t, NoError)
        ELSE IF In(event_name, t.t_house_events)
        THEN Outcome(add_argument(h, g, t.t_house_events[event_name], complement),
                     t, NoError)
        ELSE IF Minted(t, event_name)
        THEN Outcome(add_argument(h, g, t.t_undef_events[event_name], complement),
                     t, NoError)
        ELSE LET ref == Len(h) + 1 IN
             Outcome(add_argument(Append(h, Event(event_name)), g, ref, complement),
                     [t EXCEPT !.t_undef_events = Put(@, event_name, ref)],
                     NoError)

\* populate's first loop, from argument k of the i-th declared gate on
RECURSIVE Resolve(_, _, _, _)
Resolve(h, t, i, k) ==
    IF i > Len(t.gates) THEN Outcome(h, t, NoError)
    ELSE LET g == t.gates[i] IN
         IF k = 1 /\ Len(h[g].event_arguments) = 0
         THEN Outcome(h, t, Raise("AssertionError", "gate.num_arguments() > 0", <<>>))
         ELSE IF k > Len(h[g].event_arguments) THEN Resolve(h, t, i + 1, 1)
         ELSE LET o == Attach(h, t, g, h[g].event_arguments[k]) IN
              Resolve(o.heap, o.ft, i, k + 1)

\* The orders in which a set can be iterated.
SetOrders(S) ==
    {q \in [1..Cardinality(S) -> S] : Range(q) = S}

\* One iteration order for the gate-argument set of every object from
\* reference g on.
RECURSIVE OrdersFrom(_, _)
OrdersFrom(h, g) ==
    IF g > Len(h) THEN {<<>>}
    ELSE {<<q>> \o rest : q \in SetOrders(h[g].g_arguments),
                          rest \in OrdersFrom(h, g + 1)}

Orders(h) == OrdersFrom(h, 1)

\* the heap with its sets laid out so that they iterate in the orders ord
LaidOut(h, ord) == [g \in 1..Len(h) |-> [h[g] EXCEPT !.g_order = ord[g]]]

-----------------------------------------------------------------------------
(* populate: top-gate selection and cycle detection.                        *)

Names(h, refs) == [i \in 1..Len(refs) |-> h[refs[i]].name]

\* not gate.mark
Unmarked(o) == o.mark \in {"None", ""}

\* the gates __detect_top collects
Orphans(h, t) == SelectSeq(t.gates, LAMBDA x : is_orphan(h[x]))

\* a test for too many top gates that ignores multi_top
TooManyTops_always(top_gates, t) == Len(top_gates) > 1

\* __detect_top's first test: len(top_gates) > 1 and not self.multi_top
TooManyTops(top_gates, t) == Len(top_gates) > 1 /\ ~t.multi_top

\* a test for no top gate that never fires
NoTop_never(top_gates) == FALSE

\* __detect_top's second test: not top_gates
NoTop(top_gates) == top_gates = <<>>

\* LateBindingFaultTree.__detect_top
detect_top(h, t) ==
    LET top_gates == Orphans(h, t) IN
    IF TooManyTops(top_gates, t)
    THEN Outcome(h, t, Raise("FaultTreeError", "Detected multiple top gates",
                             Names(h, top_gates)))
    ELSE IF NoTop(top_gates)
    THEN Outcome(h, t, Raise("FaultTreeError", "No top gate is detected", <<>>))
    ELSE Outcome(h, [t EXCEPT !.top_gates = top_gates], NoError)

\* LateBindingFaultTree.__visit: the heap it leaves and the list it returns
\* (None: no cycle)
RECURSIVE detect_visit(_, _), detect_visit_children(_, _, _)
detect_visit(h, g) ==
    IF Unmarked(h[g])
    THEN LET r == detect_visit_children([h EXCEPT ![g].mark = "temp"], g, 1) IN
         IF r.cycle # None THEN r
         ELSE [heap |-> [r.heap EXCEPT ![g].mark = "perm"], cycle |-> None]
    ELSE IF h[g].mark = "temp" THEN [heap |-> h, cycle |-> <<h[g].name>>]
    ELSE [heap |-> h, cycle |-> None]

\* the loop over gate.g_arguments in __visit, from the k-th child on
detect_visit_children(h, g, k) ==
    IF k > Len(h[g].g_order) THEN [heap |-> h, cycle |-> None]
    ELSE LET r == detect_visit(h, h[g].g_order[k]) IN
         IF r.cycle # None
         THEN [heap |-> r.heap, cycle |-> Append(r.cycle, h[g].name)]
         ELSE detect_visit_children(r.heap, g, k + 1)

\* list.reverse()
Reverse(q) == [i \in 1..Len(q) |-> q[Len(q) + 1 - i]]

\* list.index(x), x in the list
IndexOf(q, x) == CHOOSE i \in 1..Len(q) : q[i] = x /\ \A j \in 1..(i - 1) : q[j] # x

\* a path that is the whole list reversed, from the outermost gate on
CyclePath_whole(cycle) == Reverse(cycle)

\* the path LateBindingFaultTree.__raise_cycle prints
CyclePath(cycle) ==
    LET start == cycle[1]
        rev   == Reverse(cycle)
    IN  SubSeq(rev, IndexOf(rev, start), Len(rev))

raise_cycle(cycle) == Raise("FaultTreeError", "Detected a cycle", CyclePath(cycle))

\* a loop that takes refs from the last to the first
RECURSIVE VisitEach_backwards(_, _, _)
VisitEach_backwards(h, refs, k) ==
    IF k > Len(refs) THEN [heap |-> h, cycle |-> None]
    ELSE LET r == detect_visit(h, refs[Len(refs) + 1 - k]) IN
         IF r.cycle # None THEN r ELSE VisitEach_backwards(r.heap, refs, k + 1)

\* __visit on each of refs in turn, from the k-th on, up to the first cycle
RECURSIVE VisitEach(_, _, _)
VisitEach(h, refs, k) ==
    IF k > Len(refs) THEN [heap |-> h, cycle |-> None]
    ELSE LET r == detect_visit(h, refs[k]) IN
         IF r.cycle # None THEN r ELSE VisitEach(r.heap, refs, k + 1)

\* a cycle detection that stops after the top gates
detect_cycle_tops_only(h, t) ==
    LET tops == VisitEach(h, t.top_gates, 1) IN
    IF tops.cycle # None THEN Outcome(tops.heap, t, raise_cycle(tops.cycle))
    ELSE Outcome(tops.heap, t, NoError)

\* a collection of the detached gates that finds none
DetachedGates_none(h, t) == <<>>

\* __detect_cycle's detached_gates: [x for x in self.gates if not x.mark]
DetachedGates(h, t) == SelectSeq(t.gates, LAMBDA x : Unmarked(h[x]))

\* LateBindingFaultTree.__detect_cycle
detect_cycle(h, t) ==
    LET tops == VisitEach(h, t.top_gates, 1) IN
    IF tops.cycle # None THEN Outcome(tops.heap, t, raise_cycle(tops.cycle))
    ELSE LET detached_gates == DetachedGates(tops.heap, t)
             rest == VisitEach(tops.heap, detached_gates, 1)
         IN  IF detached_gates # <<>> /\ rest.cycle # None
             THEN Outcome(rest.heap, t,
                          Raise("FaultTreeError",
                                "Detected detached gates that may be in a cycle",
                                <<Names(tops.heap, detached_gates),
                                  CyclePath(rest.cycle)>>))
             ELSE Outcome(rest.heap, t, NoError)

\* LateBindingFaultTree.populate, the argument sets iterating in the orders ord
populate(h, t, ord) ==
    LET resolved == Resolve(h, t, 1, 1) IN
    IF resolved.exc.type # "none" THEN resolved
    ELSE LET top == detect_top(LaidOut(resolved.heap, ord), resolved.ft) IN
         IF top.exc.type # "none" THEN top
         ELSE detect_cycle(top.heap, top.ft)

\* the orders populate's sets can have
PopulateOrders(h, t) == Orders(Resolve(h, t, 1, 1).heap)

-----------------------------------------------------------------------------
(* toposort_gates.                                                          *)

\* a deque filled at the other end
appendleft_right(final_list, g) == Append(final_list, g)

\* deque.appendleft
appendleft(final_list, g) == <<g>> \o final_list

\* toposort_gates' inner visit: the heap, the deque, and whether its
\* assertion failed
RECURSIVE toposort_visit(_, _, _), toposort_visit_children(_, _, _, _)
toposort_visit(h, g, final_list) ==
    IF h[g].mark = "temp"
    THEN [heap |-> h, final_list |-> final_list, failed |-> TRUE]
    ELSE IF Unmarked(h[g])
    THEN LET r == toposort_visit_children([h EXCEPT ![g].mark = "temp"], g, 1,
                                          final_list)
         IN  IF r.failed THEN r
             ELSE [heap |-> [r.heap EXCEPT ![g].mark = "perm"],
                   final_list |-> appendleft(r.final_list, g), failed |-> FALSE]
    ELSE [heap |-> h, final_list |-> final_list, failed |-> FALSE]

toposort_visit_children(h, g, k, final_list) ==
    IF k > Len(h[g].g_order)
    THEN [heap |-> h, final_list |-> final_list, failed |-> FALSE]
    ELSE LET r == toposort_visit(h, h[g].g_order[k], final_list) IN
         IF r.failed THEN r
         ELSE toposort_visit_children(r.heap, g, k + 1, r.final_list)

\* a loop over the roots that stops after the first
toposort_roots_first_only(h, root_gates, k, final_list) ==
    IF root_gates = <<>>
    THEN [heap |-> h, final_list |-> final_list, failed |-> FALSE]
    ELSE toposort_visit(h, root_gates[1], final_list)

RECURSIVE toposort_roots(_, _, _, _)
toposort_roots(h, root_gates, k, final_list) ==
    IF k > Len(root_gates)
    THEN [heap |-> h, final_list |-> final_list, failed |-> FALSE]
    ELSE LET r == toposort_visit(h, root_gates[k], final_list) IN
         IF r.failed THEN r
         ELSE toposort_roots(r.heap, root_gates, k + 1, r.final_list)

\* a marking that leaves the marks as they are
Marked_kept(h, gates, m) == h

\* every gate of gates marked m
Marked(h, gates, m) ==
    [g \in 1..Len(h) |-> IF g \in Range(gates) THEN [h[g] EXCEPT !.mark = m] ELSE h[g]]

\* toposort_gates(root_gates, gates): [heap, sorted_gates, exc]
toposort_gates(h, root_gates, gates) ==
    LET r == toposort_roots(Marked(h, gates, ""), root_gates, 1, <<>>) IN
    IF r.failed
    THEN [heap |-> r.heap, sorted_gates |-> <<>>,
          exc |-> Raise("AssertionError", "gate.mark != temp", <<>>)]
    ELSE IF Len(r.final_list) # Len(gates)
    THEN [heap |-> r.heap, sorted_gates |-> <<>>,
          exc |-> Raise("AssertionError", "len(sorted_gates) == len(gates)", <<>>)]
    ELSE [heap |-> Marked(r.heap, gates, "None"), sorted_gates |-> r.final_list,
          exc |-> NoError]

-----------------------------------------------------------------------------
(* to_xml.  The document is the sequence of its elements' tags, each the   *)
(* text of one "...\n" piece the code appends.                             *)

\* deepest nesting asked of to_xml
MaxNest == 2

\* <el k="v" ...>, </el> and <el k="v" .../>
Open(el, attrs)  == [t |-> "open", el |-> el, attrs |-> attrs]
Close(el)        == [t |-> "close", el |-> el, attrs |-> <<>>]
Empty(el, attrs) == [t |-> "empty", el |-> el, attrs |-> attrs]

\* the name attribute
Named(name) == <<<<"name", name>>>>

\* BasicEvent.to_xml
BasicEvent_to_xml(o) ==
    <<Open("define-basic-event", Named(o.name)),
      Empty("float", <<<<"value", o.value>>>>),
      Close("define-basic-event")>>

\* HouseEvent.to_xml
HouseEvent_to_xml(o) ==
    <<Open("define-house-event", Named(o.name)),
      Empty("constant", <<<<"value", o.value>>>>),
      Close("define-house-event")>>

\* an inlining test that inlines at every depth
Inlines_always(n) == TRUE

\* convert_formula's test: if nest > 0
Inlines(n) == n > 0

\* Gate.to_xml's args_to_xml over the container iterated in the order
\* given, from its k-th element on, and convert_formula
RECURSIVE args_to_xml(_, _, _, _, _, _), convert_formula(_, _, _)
args_to_xml(h, type_str, container, k, gate, n) ==
    IF k > Len(container) THEN <<>>
    ELSE LET arg        == container[k]
             complement == arg \in h[gate].complement_arguments
             one        == IF type_str = "gate" /\ Inlines(n)
                           THEN convert_formula(h, arg, n - 1)
                           ELSE <<Empty(type_str, Named(h[arg].name))>>
         IN  (IF complement THEN <<Open("not", <<>>)>> ELSE <<>>)
             \o one
             \o (IF complement THEN <<Close("not")>> ELSE <<>>)
             \o args_to_xml(h, type_str, container, k + 1, gate, n)

convert_formula(h, gate, n) ==
    LET o     == h[gate]
        attrs == CASE o.operator = "atleast" -> <<<<"min", Str(o.min_num)>>>>
                   [] o.operator = "cardinality" ->
                        <<<<"min", Str(o.min_num)>>, <<"max", Str(o.max_num)>>>>
                   [] OTHER -> <<>>
    IN  (IF o.operator # "null" THEN <<Open(o.operator, attrs)>> ELSE <<>>)
        \o args_to_xml(h, "house-event", o.h_order, 1, gate, n)
        \o args_to_xml(h, "basic-event", o.b_order, 1, gate, n)
        \o args_to_xml(h, "event", o.u_order, 1, gate, n)
        \o args_to_xml(h, "gate", o.g_order, 1, gate, n)
        \o (IF o.operator # "null" THEN <<Close(o.operator)>> ELSE <<>>)

\* Gate.to_xml(nest)
Gate_to_xml(h, gate, n) ==
    <<Open("define-gate", Named(h[gate].name))>>
    \o convert_formula(h, gate, n)
    \o <<Close("define-gate")>>

\* FaultTree.to_xml's three loops
RECURSIVE gates_to_xml(_, _, _)
gates_to_xml(h, q, n) ==
    IF q = <<>> THEN <<>>
    ELSE Gate_to_xml(h, Head(q), n) \o gates_to_xml(h, Tail(q), n)

\* a loop over the basic events that leaves the orphans out
RECURSIVE basic_events_to_xml_no_orphans(_, _)
basic_events_to_xml_no_orphans(h, q) ==
    IF q = <<>> THEN <<>>
    ELSE (IF is_orphan(h[Head(q)]) THEN <<>> ELSE BasicEvent_to_xml(h[Head(q)]))
         \o basic_events_to_xml_no_orphans(h, Tail(q))

RECURSIVE basic_events_to_xml(_, _)
basic_events_to_xml(h, q) ==
    IF q = <<>> THEN <<>>
    ELSE BasicEvent_to_xml(h[Head(q)]) \o basic_events_to_xml(h, Tail(q))

RECURSIVE house_events_to_xml(_, _)
house_events_to_xml(h, q) ==
    IF q = <<>> THEN <<>>
    ELSE HouseEvent_to_xml(h[Head(q)]) \o house_events_to_xml(h, Tail(q))

\* FaultTree.to_xml(nest): [heap, sorted_gates, mef_xml, exc]
\* (r ranges over the one outcome of toposort_gates, so the sort runs once)
FaultTree_to_xml(h, t, n) ==
    CHOOSE out \in
        {IF r.exc.type # "none"
         THEN [heap |-> r.heap, sorted_gates |-> <<>>, mef_xml |-> <<>>, exc |-> r.exc]
         ELSE [heap |-> r.heap, sorted_gates |-> r.sorted_gates, exc |-> NoError,
               mef_xml |->
                 <<Open("opsa-mef", <<>>), Open("define-fault-tree", Named(t.name))>>
                 \o gates_to_xml(r.heap, r.sorted_gates, n)
                 \o <<Close("define-fault-tree"), Open("model-data", <<>>)>>
                 \o basic_events_to_xml(r.heap, t.basic_events)
                 \o house_events_to_xml(r.heap, t.house_events)
                 \o <<Close("model-data"), Close("opsa-mef")>>] :
            r \in {toposort_gates(h, t.top_gates, t.gates)}} : TRUE

\* One iteration order for the three event-argument sets of every object
\* from reference g on.
RECURSIVE EventOrdersFrom(_, _)
EventOrdersFrom(h, g) ==
    IF g > Len(h) THEN {<<>>}
    ELSE {<<[b |-> qb, h |-> qh, u |-> qu]>> \o rest :
            qb \in SetOrders(h[g].b_arguments),
            qh \in SetOrders(h[g].h_arguments),
            qu \in SetOrders(h[g].u_arguments),
            rest \in EventOrdersFrom(h, g + 1)}

EventOrders(h) == EventOrdersFrom(h, 1)

\* the heap with its event-argument sets laid out to iterate in the orders ord
LaidOutEvents(h, ord) ==
    [g \in 1..Len(h) |->
        [h[g] EXCEPT !.b_order = ord[g].b, !.h_order = ord[g].h, !.u_order = ord[g].u]]

-----------------------------------------------------------------------------
(* parse_input and its caller.                                              *)

Init ==
    /\ pc = "reading"
    /\ input = <<>>
    /\ multi_top \in BOOLEAN
    /\ line_num = 0
    /\ heap = <<>>
    /\ ft = NewFaultTree
    /\ err = NoError
    /\ sorted_gates = <<>>
    /\ f_in = <<>> /\ f_text = <<>> /\ f_out = NotCalled
    /\ nest = 0 /\ mef_xml = <<>>

\* a handler that counts the lines from zero
WithLine_zero_based(exc, n, text) == [exc EXCEPT !.line_num = n - 1, !.line = text]

\* parse_input's handlers: the exception raised again with
\* "\nIn line %d:\n" % line_num + line appended to its message
WithLine(exc, n, text) == [exc EXCEPT !.line_num = n, !.line = text]

\* one round of parse_input's loop: the file yields the line text
ReadLine(text) ==
    /\ pc = "reading"
    /\ Len(input) < MaxLines
    /\ LET o == interpret_line(heap, ft, text) IN
        /\ input' = Append(input, text)
        /\ line_num' = line_num + 1
        /\ heap' = o.heap
        /\ ft' = o.ft
        /\ IF o.exc.type = "none"
           THEN pc' = "reading" /\ err' = NoError
           ELSE /\ pc' = "raised"
                /\ err' = WithLine(o.exc, line_num + 1, text)
    /\ UNCHANGED <<multi_top, sorted_gates, f_in, f_text, f_out, nest, mef_xml>>

\* the file is exhausted: the rest of parse_input
EndOfInput ==
    /\ pc = "reading"
    /\ IF ft.name = None
       THEN /\ pc' = "raised"
            /\ err' = Raise("FormatError", "The fault tree name is not given.", <<>>)
            /\ UNCHANGED <<heap, ft>>
       ELSE LET t == [ft EXCEPT !.multi_top = multi_top] IN
            \E ord \in PopulateOrders(heap, t) :
                LET o == populate(heap, t, ord) IN
                /\ heap' = o.heap
                /\ ft' = o.ft
                /\ err' = o.exc
                /\ pc' = IF o.exc.type = "none" THEN "returned" ELSE "raised"
    /\ UNCHANGED <<input, multi_top, line_num, sorted_gates, f_in, f_text, f_out,
                   nest, mef_xml>>

\* the caller's fault_tree.to_xml(nest) on the returned tree (main calls it
\* with the default nest = 0); the argument sets iterate in some order
ToXml ==
    /\ pc = "returned"
    /\ \E n \in 0..MaxNest, ord \in EventOrders(heap) :
        \E laid \in {LaidOutEvents(heap, ord)} :
        \E r \in {FaultTree_to_xml(laid, ft, n)} :
        /\ nest' = n
        /\ heap' = r.heap
        /\ sorted_gates' = r.sorted_gates
        /\ mef_xml' = r.mef_xml
        /\ err' = r.exc
        /\ pc' = IF r.exc.type = "none" THEN "emitted" ELSE "raised"
    /\ UNCHANGED <<input, multi_top, line_num, ft, f_in, f_text, f_out>>

Next ==
    \/ \E text \in Lines : ReadLine(text)
    \/ EndOfInput
    \/ ToXml

Spec == Init /\ [][Next]_vars

\* the same conversion, of files made of the lines with complements
NextComplement ==
    \/ \E text \in ComplementLines : ReadLine(text)
    \/ EndOfInput

SpecComplement == Init /\ [][NextComplement]_vars

\* the same conversion, of files made of the lines with self-naming gates
NextDetached ==
    \/ \E text \in DetachedLines : ReadLine(text)
    \/ EndOfInput

SpecDetached == Init /\ [][NextDetached]_vars

-----------------------------------------------------------------------------
(* Formula texts for get_formula, built from a shape, a list of literal    *)
(* tokens, the numbers, optional enclosing parentheses and a whitespace    *)
(* style.                                                                   *)

\* longest argument list built
MaxArgs == 3
\* largest l and h written in a cardinality formula
MaxCard == 4

Tokens == {<<"a">>, <<"~", "a">>, <<"A">>, <<"b", "1">>}

TokenLists(lo, hi) == UNION {[1..n -> Tokens] : n \in lo..hi}

\* ws = 0: no whitespace; 1: one space around separators; 2: tabs and
\* spaces everywhere whitespace is allowed
Pad(ws) == CASE ws = 0 -> <<>> [] ws = 1 -> <<" ">> [] ws = 2 -> <<"\t", " ">>

RECURSIVE Join(_, _)
Join(lits, sep) ==
    IF Len(lits) = 1 THEN lits[1]
    ELSE lits[1] \o sep \o Join(Tail(lits), sep)

Separator(shape) ==
    CASE shape = "or" -> <<"|">> [] shape = "and" -> <<"&">>
      [] shape = "xor" -> <<"^">> [] shape = "imply" -> <<"=", ">">>
      [] shape = "iff" -> <<"<", "=", ">">>
      [] OTHER -> <<",">>

Render(i) ==
    LET p    == Pad(i.ws)
        sep  == p \o Separator(i.shape) \o p
        list == <<"[">> \o p \o Join(i.lits, sep) \o p \o <<"]">>
        body ==
            CASE i.shape \in {"or", "and", "xor", "imply", "iff"} ->
                    Join(i.lits, sep)
              [] i.shape = "null" -> i.lits[1]
              [] i.shape = "not" -> <<"~", "(">> \o p \o i.lits[1] \o p \o <<")">>
              [] i.shape = "atleast" ->
                    <<"@", "(">> \o p \o <<DigitChar(i.k)>> \o p \o <<",">> \o p
                    \o list \o p \o <<")">>
              [] i.shape = "cardinality" ->
                    <<"#", "(">> \o p \o <<DigitChar(i.l)>> \o p \o <<",">> \o p
                    \o <<DigitChar(i.h)>> \o p \o <<",">> \o p
                    \o list \o p \o <<")">>
    IN  p \o (IF i.paren THEN <<"(">> \o p \o body \o p \o <<")">> ELSE body) \o p

FormulaInput(shape, lits, k, l, h, paren, ws) ==
    [shape |-> shape, lits |-> lits, k |-> k, l |-> l, h |-> h,
     paren |-> paren, ws |-> ws]

FormulaInputs ==
    {FormulaInput(sh, ls, 0, 0, 0, par, ws) :
        sh \in {"or", "and"}, ls \in TokenLists(2, MaxArgs),
        par \in BOOLEAN, ws \in 0..2}
    \cup
    {FormulaInput(sh, ls, 0, 0, 0, par, ws) :
        sh \in {"xor", "imply", "iff"}, ls \in TokenLists(2, 3),
        par \in BOOLEAN, ws \in 0..2}
    \cup
    {FormulaInput(sh, ls, 0, 0, 0, par, ws) :
        sh \in {"not", "null"}, ls \in TokenLists(1, 1),
        par \in BOOLEAN, ws \in 0..2}
    \cup
    {FormulaInput("atleast", ls, k, 0, 0, FALSE, ws) :
        ls \in TokenLists(1, MaxArgs), k \in 1..9, ws \in 0..1}
    \cup
    {FormulaInput("cardinality", ls, 0, l, h, FALSE, ws) :
        ls \in TokenLists(1, MaxArgs), l \in 0..MaxCard, h \in 0..MaxCard,
        ws \in 0..1}

\* the variables of the conversion, at rest
Idle ==
    /\ pc = "idle" /\ input = <<>> /\ multi_top = FALSE /\ line_num = 0
    /\ heap = <<>> /\ ft = NewFaultTree /\ err = NoError /\ sorted_gates = <<>>
    /\ nest = 0 /\ mef_xml = <<>>

InitFormula ==
    /\ Idle
    /\ f_in \in FormulaInputs
    /\ f_text = Render(f_in)
    /\ f_out = NotCalled

\* a call get_formula(f_text)
CallGetFormula ==
    /\ f_out = NotCalled
    /\ f_out' = get_formula(f_text)
    /\ UNCHANGED <<pc, input, multi_top, line_num, heap, ft, err, sorted_gates,
                   f_in, f_text, nest, mef_xml>>

NextFormula == CallGetFormula

SpecFormula == InitFormula /\ [][NextFormula]_vars

-----------------------------------------------------------------------------
(* Formula texts with a defect: a formula of one of the shapes, damaged by *)
(* a second operator at the same level, a doubled complement marker, a     *)
(* second enclosing parenthesis pair, or a dropped parenthesis.            *)

ShapeTokens == {<<"a">>, <<"~", "b">>, <<"c", "1">>}

ShapeLists(lo, hi) == UNION {[1..n -> ShapeTokens] : n \in lo..hi}

Infix == {"or", "and", "xor", "imply", "iff"}

\* defect kinds; at is the literal the defect is applied to, op the second
\* operator of a mixed formula
Defect(kind, at, op) == [kind |-> kind, at |-> at, op |-> op]
NoDefect == Defect("none", 0, "none")

ShapeInput(shape, lits, k, l, h, paren, ws, defect) ==
    [shape |-> shape, lits |-> lits, k |-> k, l |-> l, h |-> h,
     paren |-> paren, ws |-> ws, defect |-> defect]

ShapeBases ==
    {ShapeInput(sh, ls, 0, 0, 0, par, ws, NoDefect) :
        sh \in {"or", "and"}, ls \in ShapeLists(2, MaxArgs),
        par \in BOOLEAN, ws \in 0..1}
    \cup
    {ShapeInput(sh, ls, 0, 0, 0, par, ws, NoDefect) :
        sh \in {"xor", "imply", "iff"}, ls \in ShapeLists(2, 3),
        par \in BOOLEAN, ws \in 0..1}
    \cup
    {ShapeInput(sh, ls, 0, 0, 0, par, ws, NoDefect) :
        sh \in {"not", "null"}, ls \in ShapeLists(1, 1),
        par \in BOOLEAN, ws \in 0..1}
    \cup
    {ShapeInput("atleast", ls, k, 0, 0, par, ws, NoDefect) :
        ls \in ShapeLists(2, MaxArgs), k \in 1..2, par \in BOOLEAN, ws \in 0..1}
    \cup
    {ShapeInput("cardinality", ls, 0, 1, 2, par, ws, NoDefect) :
        ls \in ShapeLists(2, MaxArgs), par \in BOOLEAN, ws \in 0..1}

HasParenthesis(i) == i.paren \/ i.shape \in {"not", "atleast", "cardinality"}

ShapeInputs ==
    ShapeBases
    \cup {[i EXCEPT !.defect = Defect("nested", 0, "none")] : i \in ShapeBases}
    \cup {[i EXCEPT !.defect = Defect(kind, 0, "none")] :
            i \in {b \in ShapeBases : HasParenthesis(b)},
            kind \in {"drop_open", "drop_close"}}
    \cup UNION {{[i EXCEPT !.defect = Defect("double", at, "none")] :
                    at \in {n \in 1..Len(i.lits) : i.lits[n][1] = "~"}} :
                i \in ShapeBases}
    \cup UNION {{[i EXCEPT !.defect = Defect("mixed", Len(i.lits), op)] :
                    op \in Infix \ {i.shape}} :
                i \in {b \in ShapeBases : b.shape \in Infix /\ Len(b.lits) = 3}}

RECURSIVE FirstIndex(_, _, _)
FirstIndex(q, c, i) ==
    IF i > Len(q) THEN 0 ELSE IF q[i] = c THEN i ELSE FirstIndex(q, c, i + 1)

RECURSIVE LastIndex(_, _, _)
LastIndex(q, c, i) ==
    IF i < 1 THEN 0 ELSE IF q[i] = c THEN i ELSE LastIndex(q, c, i - 1)

RemoveAt(q, i) == SubSeq(q, 1, i - 1) \o SubSeq(q, i + 1, Len(q))

\* the text of a formula with its defect
RenderDefect(i) ==
    LET d == i.defect
        p == Pad(i.ws)
        n == Len(i.lits)
    IN  CASE d.kind = "none" -> Render(i)
          [] d.kind = "nested" ->
                <<"(">> \o p \o Render([i EXCEPT !.paren = TRUE]) \o p \o <<")">>
          [] d.kind = "drop_open" ->
                LET t == Render(i) IN RemoveAt(t, FirstIndex(t, "(", 1))
          [] d.kind = "drop_close" ->
                LET t == Render(i) IN RemoveAt(t, LastIndex(t, ")", Len(t)))
          [] d.kind = "double" ->
                Render([i EXCEPT !.lits[d.at] = <<"~">> \o i.lits[d.at]])
          [] d.kind = "mixed" ->
                \* the last two literals are joined by the second operator
                Render([i EXCEPT !.lits =
                    SubSeq(i.lits, 1, n - 2)
                    \o <<i.lits[n - 1] \o p \o Separator(d.op) \o p \o i.lits[n]>>])

InitShape ==
    /\ Idle
    /\ f_in \in ShapeInputs
    /\ f_text = RenderDefect(f_in)
    /\ f_out = NotCalled

NextShape == CallGetFormula

SpecShape == InitShape /\ [][NextShape]_vars

-----------------------------------------------------------------------------
(* Candidate tree names: every string up to MaxNameLen over a letter of    *)
(* each case, a digit, the underscore, the hyphen and the period, given to *)
(* interpret_line as the only line of a fresh tree.                        *)

\* longest candidate name
MaxNameLen == 4

NameChars == {"a", "B", "7", "_", "-", "."}

NameTexts == UNION {[1..n -> NameChars] : n \in 0..MaxNameLen}

InitName ==
    /\ Idle
    /\ f_in = <<>>
    /\ f_text \in NameTexts
    /\ f_out = NotCalled

\* a call interpret_line(f_text, fault_tree) on a fresh tree
CallInterpretLine ==
    /\ pc = "idle"
    /\ LET o == interpret_line(heap, ft, f_text) IN
        /\ heap' = o.heap
        /\ ft' = o.ft
        /\ err' = o.exc
        /\ pc' = "interpreted"
    /\ UNCHANGED <<input, multi_top, line_num, sorted_gates, f_in, f_text, f_out,
                   nest, mef_xml>>

NextName == CallInterpretLine

SpecName == InitName /\ [][NextName]_vars

-----------------------------------------------------------------------------
(* Vocabulary of the properties.                                            *)

Refs == 1..Len(heap)
GateRefs == {r \in Refs : heap[r].kind = "Gate"}
UndefinedRefs == {r \in Refs : heap[r].kind = "Event"}

\* populate was entered: parse_input returned, or raised after its loop with
\* the tree name present
PopulateRan ==
    \/ pc \in {"returned", "emitted"}
    \/ pc = "raised" /\ err.line_num = 0 /\ ft.name # None

\* the gates reachable from the gates S along gate arguments, S included
RECURSIVE ReachFrom(_)
ReachFrom(S) ==
    LET N == S \cup UNION {heap[g].g_arguments : g \in S} IN
    IF N = S THEN S ELSE ReachFrom(N)

OnCycle(g) == g \in ReachFrom(heap[g].g_arguments)
HasCycle == \E g \in GateRefs : OnCycle(g)

\* the gates the declaration of gate g names, read off its tokens
DeclaredArguments(g) ==
    {ft.t_gates[n] :
        n \in {LStripSet(heap[g].event_arguments[k], {"~"}) :
                    k \in 1..Len(heap[g].event_arguments)}
               \cap DOMAIN ft.t_gates}

RECURSIVE DeclaredReach(_)
DeclaredReach(S) ==
    LET N == S \cup UNION {DeclaredArguments(g) : g \in S} IN
    IF N = S THEN S ELSE DeclaredReach(N)

\* the declarations read name gates in a circle
DeclaredCycle ==
    \E g \in Range(ft.gates) : g \in DeclaredReach(DeclaredArguments(g))

\* the declared gates without a parent, in declaration order
ZeroParentGates == SelectSeq(ft.gates, LAMBDA g : heap[g].parents = {})

\* the gate names an error message carries
MentionedNames(e) ==
    CASE e.msg = "Detected a cycle" -> Range(e.detail)
      [] e.msg = "Detected multiple top gates" -> Range(e.detail)
      [] e.msg = "Detected detached gates that may be in a cycle" ->
            Range(e.detail[1]) \cup Range(e.detail[2])
      [] OTHER -> {}

TopOrCycleMessages ==
    {"No top gate is detected", "Detected multiple top gates",
     "Detected a cycle", "Detected detached gates that may be in a cycle"}

\* the line ReadLine has just taken, in the step's second state
LastLine(in) == in[Len(in)]

-----------------------------------------------------------------------------
(* C1. Every tree parse_input returns has an acyclic gate graph, as        *)
(* declared and as resolved; whenever populate runs on declarations whose  *)
(* gate graph has a cycle (reachable from a top gate, detached, or through *)
(* every gate), parse_input raises FaultTreeError and returns nothing.     *)
C1_Acyclic ==
    /\ pc \in {"returned", "emitted"} => ~HasCycle /\ ~DeclaredCycle
    /\ (PopulateRan /\ (HasCycle \/ DeclaredCycle)) =>
            pc = "raised" /\ err.type = "FaultTreeError"

\* a cycle detached from the one top gate was found and reported
C1_Witness ==
    /\ pc = "raised"
    /\ HasCycle
    /\ DeclaredCycle
    /\ err.msg = "Detected detached gates that may be in a cycle"
    /\ Len(ft.top_gates) = 1

-----------------------------------------------------------------------------
(* C2. The order toposort_gates returns.                                    *)

Pos(g) == IndexOf(sorted_gates, g)

(* C2 as claimed: in the sequence toposort_gates returns, every gate       *)
(* argument c of a gate g comes before g.                                   *)
C2_ChildrenFirst ==
    pc = "emitted" =>
        \A g \in Range(ft.gates) : \A c \in heap[g].g_arguments : Pos(c) < Pos(g)

(* C2 as amended: in the sequence toposort_gates returns, every gate g     *)
(* comes before each of its gate arguments c (parents first: the gate is   *)
(* prepended after its children were).                                      *)
C2_ParentsFirst ==
    pc = "emitted" =>
        /\ Range(sorted_gates) = Range(ft.gates)
        /\ \A g \in Range(ft.gates) : \A c \in heap[g].g_arguments : Pos(g) < Pos(c)

\* a gate with two gate arguments, one of them an argument of the other
C2_Witness ==
    /\ pc = "emitted"
    /\ \E g \in GateRefs : \E c, d \in heap[g].g_arguments :
            c # d /\ d \in heap[c].g_arguments

-----------------------------------------------------------------------------
(* C3. Top-gate selection succeeds iff at least one gate has no parent and *)
(* (exactly one has none or multi_top is set); then top_gates is exactly   *)
(* the parent-free gates; otherwise FaultTreeError is raised.               *)
C3_TopSelection ==
    PopulateRan =>
        LET n == Len(ZeroParentGates) IN
        /\ ft.top_gates # None <=> (n >= 1 /\ (n = 1 \/ multi_top))
        /\ ft.top_gates # None => ft.top_gates = ZeroParentGates
        /\ ft.top_gates = None =>
                /\ pc = "raised"
                /\ err.type = "FaultTreeError"
                /\ err.msg = (IF n = 0 THEN "No top gate is detected"
                              ELSE "Detected multiple top gates")

\* two parent-free gates accepted as roots under multi_top
C3_Witness ==
    /\ pc = "returned"
    /\ multi_top
    /\ Len(ZeroParentGates) = 2
    /\ ft.top_gates = ZeroParentGates

-----------------------------------------------------------------------------
(* C4. Two gates that reference each other while no gate is parent-free.   *)

MutualPairs ==
    {p \in GateRefs \X GateRefs :
        p[1] # p[2] /\ p[2] \in heap[p[1]].g_arguments
                    /\ p[1] \in heap[p[2]].g_arguments}

NoParentFreeCycle == PopulateRan /\ MutualPairs # {} /\ ZeroParentGates = <<>>

(* C4 as claimed: such an input fails with a cycle error whose message     *)
(* names both gates.                                                        *)
C4_CycleNamed ==
    NoParentFreeCycle =>
        /\ pc = "raised"
        /\ err.type = "FaultTreeError"
        /\ err.msg \in {"Detected a cycle",
                        "Detected detached gates that may be in a cycle"}
        /\ \E p \in MutualPairs :
                {heap[p[1]].name, heap[p[2]].name} \subseteq MentionedNames(err)

(* C4 as amended: such an input fails with the FaultTreeError "No top gate *)
(* is detected" of top-gate selection; the message names no gate, and      *)
(* cycle detection does not run (no gate is marked, no top gate is set).   *)
C4_NoTopReported ==
    NoParentFreeCycle =>
        /\ pc = "raised"
        /\ err.type = "FaultTreeError"
        /\ err.msg = "No top gate is detected"
        /\ MentionedNames(err) = {}
        /\ ft.top_gates = None
        /\ \A g \in GateRefs : heap[g].mark = "None"

\* the input FT / g1 := g2 & e1 / g2 := g1 & e1
C4_Witness ==
    /\ NoParentFreeCycle
    /\ input = <<L_FT, L_g1_g2_and_e1, L_g2_g1_and_e1>>

-----------------------------------------------------------------------------
(* C5. Gates, basic events and house events share one namespace.            *)

DeclaredNames ==
    DOMAIN ft.t_gates \cup DOMAIN ft.t_basic_events \cup DOMAIN ft.t_house_events

Declarations == ft.gates \o ft.basic_events \o ft.house_events

C5_Tables ==
    /\ DOMAIN ft.t_gates \cap DOMAIN ft.t_basic_events = {}
    /\ DOMAIN ft.t_gates \cap DOMAIN ft.t_house_events = {}
    /\ DOMAIN ft.t_basic_events \cap DOMAIN ft.t_house_events = {}
    /\ \A i, j \in 1..Len(Declarations) :
            heap[Declarations[i]].name = heap[Declarations[j]].name => i = j
    /\ DOMAIN ft.t_gates = {heap[g].name : g \in Range(ft.gates)}
    /\ DOMAIN ft.t_basic_events = {heap[g].name : g \in Range(ft.basic_events)}
    /\ DOMAIN ft.t_house_events = {heap[g].name : g \in Range(ft.house_events)}

\* a step that reads a well-formed declaration of a name already declared
C5_Rejects ==
    (/\ pc = "reading"
     /\ Len(input') = Len(input) + 1
     /\ LineClass[LastLine(input')].branch \in {"gate", "prob", "state"}
     /\ LineClass[LastLine(input')].formula.exc.type = "none"
     /\ LineClass[LastLine(input')].name \in DeclaredNames)
    => /\ pc' = "raised"
       /\ err'.type = "FaultTreeError"
       /\ err'.msg = "Redefinition of an event"
       /\ err'.detail = LineClass[LastLine(input')].name
       /\ heap' = heap
       /\ ft' = ft

(* C5. After any sequence of declarations the three name tables are        *)
(* pairwise disjoint and every name is declared once; a declaration of a   *)
(* name already in one of the tables raises FaultTreeError and changes no  *)
(* table and no declaration list.                                           *)
C5_SharedNamespace == []C5_Tables /\ [][C5_Rejects]_vars

\* a house event declared under the name of a basic event was refused
C5_Witness ==
    /\ pc = "raised"
    /\ err.msg = "Redefinition of an event"
    /\ LastLine(input) = L_s_e1
    /\ N_e1 \in DOMAIN ft.t_basic_events
    /\ ft.house_events = <<>>

-----------------------------------------------------------------------------
(* C9. Undefined events.                                                    *)

\* the bare names the declared gates refer to
ReferencedNames ==
    UNION {{LStripSet(heap[g].event_arguments[k], {"~"}) :
                k \in 1..Len(heap[g].event_arguments)} : g \in Range(ft.gates)}

UndeclaredNames == ReferencedNames \ DeclaredNames

(* C9. A reference to an undeclared name never fails populate: the first   *)
(* mints one undefined event for the name and every later reference, from  *)
(* any gate, attaches that same instance; there are as many undefined       *)
(* events as distinct undeclared names referenced, and none bears a         *)
(* declared name.                                                           *)
C9_UndefinedEvents ==
    PopulateRan =>
        /\ Cardinality(UndefinedRefs) = Cardinality(UndeclaredNames)
        /\ {heap[r].name : r \in UndefinedRefs} = UndeclaredNames
        /\ {ft.t_undef_events[n] : n \in DOMAIN ft.t_undef_events} = UndefinedRefs
        /\ \A n \in DOMAIN ft.t_undef_events : heap[ft.t_undef_events[n]].name = n
        /\ \A g \in Range(ft.gates) : \A k \in 1..Len(heap[g].event_arguments) :
                LET n == LStripSet(heap[g].event_arguments[k], {"~"}) IN
                n \in UndeclaredNames =>
                    /\ ft.t_undef_events[n] \in heap[g].u_arguments
                    /\ g \in heap[ft.t_undef_events[n]].parents
        /\ pc = "raised" =>
                err.type = "FaultTreeError" /\ err.msg \in TopOrCycleMessages

\* one undefined event referenced by two gates of a returned tree
C9_Witness ==
    /\ pc = "returned"
    /\ \E r \in UndefinedRefs : Cardinality(heap[r].parents) = 2

-----------------------------------------------------------------------------
(* C10. The fault-tree name.                                                *)

\* the tree-name lines read so far
NameLines == SelectSeq(input, LAMBDA l : LineClass[l].branch = "ft_name")

\* nothing of populate has happened
PopulateNotRun ==
    /\ ft.top_gates = None
    /\ DOMAIN ft.t_undef_events = {}
    /\ \A r \in Refs : /\ heap[r].parents = {}
                       /\ heap[r].mark = "None"
                       /\ heap[r].g_arguments = {}
                       /\ heap[r].b_arguments = {}
                       /\ heap[r].h_arguments = {}
                       /\ heap[r].u_arguments = {}

C10_Name ==
    /\ ft.name # None => NameLines # <<>> /\ ft.name = LineClass[NameLines[1]].name
    /\ ft.name = None => NameLines = <<>>
    /\ pc \in {"returned", "emitted"} => ft.name # None
    /\ (pc = "raised" /\ err.line_num = 0 /\ NameLines = <<>>) =>
            /\ err.type = "FormatError"
            /\ err.msg = "The fault tree name is not given."
            /\ PopulateNotRun
    /\ err.msg = "The fault tree name is not given." =>
            pc = "raised" /\ NameLines = <<>>

C10_Step ==
    /\ ft.name # None => ft'.name = ft.name
    /\ (/\ pc = "reading"
        /\ Len(input') = Len(input) + 1
        /\ LineClass[LastLine(input')].branch = "ft_name"
        /\ ft.name # None)
       => /\ pc' = "raised"
          /\ err'.type = "FormatError"
          /\ err'.msg = "Redefinition of the fault tree name"
          /\ ft' = ft

(* C10. The tree name is set at most once, by the first tree-name line: a  *)
(* later bare-identifier line raises FormatError and leaves the name as it *)
(* was; an input without a tree-name line raises FormatError once all      *)
(* lines are read, before populate does anything.                           *)
C10_TreeName == []C10_Name /\ [][C10_Step]_vars

\* a second tree-name line was refused and the first name kept
C10_Witness ==
    /\ pc = "raised"
    /\ err.msg = "Redefinition of the fault tree name"
    /\ LastLine(input) = L_T2
    /\ ft.name = N_FT

-----------------------------------------------------------------------------
(* Properties of get_formula, under SpecFormula.                            *)

Called == f_out.operator # "pending"

Count == Len(f_in.lits)

\* two of the tokens written are the same text
SameTokenTwice ==
    \E i, j \in 1..Count : i < j /\ f_in.lits[i] = f_in.lits[j]

Accepted(operator, min_num, max_num) ==
    /\ f_out.exc.type = "none"
    /\ f_out.operator = operator
    /\ f_out.arguments = f_in.lits
    /\ f_out.min_num = min_num
    /\ f_out.max_num = max_num

\* the text is one of the multi-argument shapes, as its pattern has it
MultiArgument ==
    \/ f_in.shape \in {"or", "and"}
    \/ f_in.shape \in {"xor", "imply", "iff"} /\ Count = 2
    \/ f_in.shape = "atleast" /\ f_in.k \in 2..9 /\ Count >= 3
    \/ f_in.shape = "cardinality" /\ Count >= 3

(* C6. A multi-argument formula with two textually identical trimmed       *)
(* tokens (complement marker included) is rejected with FaultTreeError;    *)
(* tokens that differ by the complement marker or by letter case are no    *)
(* duplicates, and the formula is accepted (for the at-least and           *)
(* cardinality shapes: when its numbers fit).                               *)
C6_RepeatedArguments ==
    (Called /\ MultiArgument) =>
        IF SameTokenTwice
        THEN f_out.exc.type = "FaultTreeError" /\ f_out.exc.msg = "Repeated arguments"
        ELSE /\ f_out.exc.msg # "Repeated arguments"
             /\ f_in.shape \in {"or", "and", "xor", "imply", "iff"} =>
                    Accepted(f_in.shape, NoNum, NoNum)
             /\ (f_in.shape = "atleast" /\ f_in.k < Count) =>
                    Accepted("atleast", f_in.k, NoNum)
             /\ (f_in.shape = "cardinality" /\ f_in.l <= f_in.h /\ f_in.h <= Count) =>
                    Accepted("cardinality", f_in.l, f_in.h)

\* a and ~a and A in one formula, accepted
C6_Witness ==
    /\ Called
    /\ f_in.shape = "and"
    /\ f_in.lits = <<<<"a">>, <<"~", "a">>, <<"A">>>>
    /\ Accepted("and", NoNum, NoNum)

AtleastOfDistinct ==
    Called /\ f_in.shape = "atleast" /\ f_in.k \in 2..9 /\ ~SameTokenTwice

(* C7 as claimed: for an at-least formula with k in 2..9 and distinct      *)
(* arguments, k not below the number of arguments is a FaultTreeError,     *)
(* otherwise the result is atleast with min_num = k and all the tokens.    *)
C7_AnyList ==
    AtleastOfDistinct =>
        IF f_in.k >= Count THEN f_out.exc.type = "FaultTreeError"
        ELSE Accepted("atleast", f_in.k, NoNum)

(* C7 as amended: for an at-least formula with k in 2..9 and three or more *)
(* distinct arguments, k not below the number of arguments is a            *)
(* FaultTreeError, otherwise the result is atleast with min_num = k and    *)
(* all the tokens; a list of fewer than three arguments is not recognized  *)
(* and raises ParsingError.                                                 *)
C7_ThreeOrMore ==
    AtleastOfDistinct =>
        IF Count < 3 THEN f_out.exc.type = "ParsingError"
        ELSE IF f_in.k >= Count
        THEN /\ f_out.exc.type = "FaultTreeError"
             /\ f_out.exc.msg = "Invalid k/n for the combination formula"
        ELSE Accepted("atleast", f_in.k, NoNum)

\* k = n = 3 refused
C7_Witness ==
    /\ AtleastOfDistinct
    /\ Count = 3
    /\ f_in.k = 3
    /\ f_out.exc.msg = "Invalid k/n for the combination formula"

(* C8. Every cardinality gate get_formula accepts has 0 <= l <= h <= the   *)
(* number of its arguments; a recognized #(l, h, [list]) with l > h or h   *)
(* above the number of arguments raises FaultTreeError.                     *)
C8_Cardinality ==
    Called =>
        /\ f_out.operator = "cardinality" =>
                /\ 0 <= f_out.min_num
                /\ f_out.min_num <= f_out.max_num
                /\ f_out.max_num <= Len(f_out.arguments)
        /\ (/\ f_in.shape = "cardinality"
            /\ Count >= 3
            /\ (f_in.l > f_in.h \/ f_in.h > Count))
           => f_out.exc.type = "FaultTreeError"

\* l <= h, h one above the three distinct arguments: refused
C8_Witness ==
    /\ Called
    /\ f_in.shape = "cardinality"
    /\ Count = 3
    /\ ~SameTokenTwice
    /\ f_in.l <= f_in.h
    /\ f_in.h = 4
    /\ f_out.exc.msg = "Invalid l/h for the cardinality formula"

-----------------------------------------------------------------------------
\* the rules of a name, stated on the characters
StartsWithLetter(s) == s # <<>> /\ s[1] \in Lower \cup Upper
OnlyNameCharacters(s) ==
    \A i \in 1..Len(s) : s[i] \in Lower \cup Upper \cup Digit \cup {"_", "-"}
NoDoubleHyphen(s) == \A i \in 1..(Len(s) - 1) : ~(s[i] = "-" /\ s[i + 1] = "-")
NoTrailingHyphen(s) == s = <<>> \/ s[Len(s)] # "-"
NoPeriod(s) == \A i \in 1..Len(s) : s[i] # "."
WellFormedName(s) ==
    /\ StartsWithLetter(s)
    /\ OnlyNameCharacters(s)
    /\ NoDoubleHyphen(s)
    /\ NoTrailingHyphen(s)
    /\ NoPeriod(s)

(* C11. A line over letters, digits, underscore, hyphen and period is      *)
(* taken as the tree name iff it starts with a letter, holds only letters, *)
(* digits, underscores and hyphens, has no two hyphens in a row, no hyphen *)
(* at its end and no period; every other non-empty line is rejected with   *)
(* ParsingError and names nothing.                                         *)
C11_NamePattern ==
    pc = "interpreted" =>
        /\ WellFormedName(f_text) <=>
                (err.type = "none" /\ NameIsSet(ft) /\ ft.name = f_text)
        /\ Match(RE_FT_NAME, f_text).ok <=> WellFormedName(f_text)
        /\ (~WellFormedName(f_text) /\ f_text # <<>>) =>
                (err.type = "ParsingError" /\ ft.name = None)

\* a name with a hyphen inside, an underscore and a digit is taken
C11_Witness ==
    /\ pc = "interpreted"
    /\ f_text = <<"a", "-", "_", "7">>
    /\ ft.name = f_text
-----------------------------------------------------------------------------
\* the formula of input i is one of the nine shapes: the operator's number
\* of literals, and an enclosing pair only around text without parentheses
OneOfNineShapes(i) ==
    /\ i.defect = NoDefect
    /\ CASE i.shape \in {"or", "and"} -> Len(i.lits) >= 2
          [] i.shape \in {"xor", "imply", "iff"} -> Len(i.lits) = 2
          [] i.shape = "null" -> Len(i.lits) = 1
          [] i.shape = "not" -> Len(i.lits) = 1 /\ ~i.paren
          [] i.shape = "atleast" -> Len(i.lits) >= 3 /\ i.k \in 2..9 /\ ~i.paren
          [] i.shape = "cardinality" -> Len(i.lits) >= 3 /\ ~i.paren

\* the formulas the claim lists as matching no shape
Defective(i) ==
    \/ i.defect # NoDefect
    \/ i.shape \in {"xor", "imply", "iff"} /\ Len(i.lits) = 3

(* C12. get_formula returns a formula only if the text, after at most one  *)
(* enclosing parenthesis pair without parentheses inside is stripped, is   *)
(* one of the nine shapes and nothing else; a second operator at the same  *)
(* level, XOR / IMPLY / IFF over three literals, a doubled complement      *)
(* marker, a second enclosing pair and a dropped opening or closing        *)
(* parenthesis all raise ParsingError.                                     *)
C12_WholeShape ==
    Called =>
        /\ f_out.exc.type = "none" => OneOfNineShapes(f_in)
        /\ ~OneOfNineShapes(f_in) => f_out.exc.type = "ParsingError"
        /\ Defective(f_in) => f_out.exc.type = "ParsingError"

\* a formula with an AND after an OR has been refused
C12_Witness ==
    /\ Called
    /\ f_in.defect.kind = "mixed"
    /\ f_in.shape = "or" /\ f_in.defect.op = "and"
    /\ f_out.exc.type = "ParsingError"
-----------------------------------------------------------------------------
\* the object the token tok resolves to
Resolved(tok) ==
    LET event_name == LStripSet(tok, {"~"}) IN
    CHOOSE r \in Refs :
        /\ heap[r].name = event_name
        /\ \/ In(event_name, ft.t_gates) /\ ft.t_gates[event_name] = r
           \/ In(event_name, ft.t_basic_events) /\ ft.t_basic_events[event_name] = r
           \/ In(event_name, ft.t_house_events) /\ ft.t_house_events[event_name] = r
           \/ In(event_name, ft.t_undef_events) /\ ft.t_undef_events[event_name] = r

Marked_tokens(g) ==
    {tok \in Range(heap[g].event_arguments) : tok[1] = "~"}

Arguments(g) ==
    heap[g].g_arguments \cup heap[g].b_arguments
    \cup heap[g].h_arguments \cup heap[g].u_arguments

(* C13. After populate the complement set of every gate is exactly the set *)
(* of objects its '~'-prefixed tokens resolve to: an attached argument is  *)
(* in the complement set iff a token naming it carries the marker, for     *)
(* every operator.                                                          *)
C13_ComplementSet ==
    PopulateRan =>
        \A g \in GateRefs :
            /\ heap[g].complement_arguments = {Resolved(tok) : tok \in Marked_tokens(g)}
            /\ \A a \in Arguments(g) :
                    a \in heap[g].complement_arguments <=>
                        \E tok \in Marked_tokens(g) : Resolved(tok) = a

\* a returned tree with an at-least gate over a plain event, a complemented
\* event and a complemented gate
C13_Witness ==
    /\ pc = "returned"
    /\ \E g \in GateRefs :
        /\ heap[g].operator = "atleast"
        /\ Cardinality(heap[g].complement_arguments) = 2
        /\ Cardinality(Arguments(g)) = 3
        /\ \E a \in heap[g].complement_arguments : heap[a].kind = "Gate"
-----------------------------------------------------------------------------
\* interpreting a line raised: the error carries the line's number
LineRaised == pc = "raised" /\ err.line_num > 0

\* the names the lines q declare through the given branch of interpret_line
DeclaredBy(q, branch) ==
    {LineClass[q[k]].name :
        k \in {j \in 1..Len(q) : LineClass[q[j]].branch = branch}}

LinesBeforeLast == SubSeq(input, 1, Len(input) - 1)

\* once a line has raised: it is the last line taken, populate has not run,
\* nothing is emitted, and the tables hold the declarations of the lines
\* before it and no others
C14_Stopped ==
    LineRaised =>
        /\ err.line_num = Len(input)
        /\ line_num = Len(input)
        /\ PopulateNotRun
        /\ sorted_gates = <<>>
        /\ DOMAIN ft.t_gates = DeclaredBy(LinesBeforeLast, "gate")
        /\ DOMAIN ft.t_basic_events = DeclaredBy(LinesBeforeLast, "prob")
        /\ DOMAIN ft.t_house_events = DeclaredBy(LinesBeforeLast, "state")
        /\ Len(Declarations) = Cardinality(DeclaredNames)
        /\ Len(heap) = Len(Declarations)

\* the raising line records nothing, and nothing happens after it
C14_Step ==
    /\ ~LineRaised
    /\ LineRaised' => (heap' = heap /\ ft' = ft)

(* C14. parse_input stops at the first fatal error: once interpreting line *)
(* i raises, no later line is interpreted, populate never runs, no tree is *)
(* returned, and the declarations recorded are those of the lines before i *)
(* and no others.                                                          *)
C14_StopsAtFirstError == []C14_Stopped /\ [][C14_Step]_vars

\* the third line redeclares a name of the first two and raises
C14_Witness ==
    /\ LineRaised
    /\ err.line_num = 3
    /\ err.type = "FaultTreeError"
    /\ Len(Declarations) = 2
-----------------------------------------------------------------------------
\* the messages of the errors raised while a line is interpreted
LineMessages ==
    {"Cannot interpret the line.", "Cannot interpret the formula",
     "Repeated arguments", "Invalid k/n for the combination formula",
     "Invalid l/h for the cardinality formula", "Redefinition of an event",
     "Redefinition of the fault tree name"}

\* the messages of the errors raised after the last line
AfterLoopMessages == TopOrCycleMessages \cup {"The fault tree name is not given."}

\* the error carries the 1-based number and the text of the last line taken
LineAttached ==
    /\ err.line_num >= 1
    /\ err.line_num = Len(input)
    /\ err.line = input[err.line_num]

(* C15 as stated. Every fatal error of parse_input, the missing tree name, *)
(* the top-gate errors and the cycle errors included, carries the 1-based  *)
(* number and the text of the line being processed.                        *)
C15_EveryErrorHasLine == pc = "raised" => LineAttached

(* C15, amended. Every error raised while a line is interpreted carries    *)
(* the 1-based number and the text of that line; the missing-name error    *)
(* and populate's top-gate and cycle errors are raised after the loop and  *)
(* carry no line.                                                          *)
C15_LineErrorsHaveLine ==
    pc = "raised" =>
        /\ err.type \in {"ParsingError", "FormatError", "FaultTreeError"}
        /\ err.msg \in LineMessages \cup AfterLoopMessages
        /\ err.msg \in LineMessages => LineAttached
        /\ err.msg \in AfterLoopMessages => (err.line_num = 0 /\ err.line = <<>>)

\* the second line failed recognition and is quoted in the error
C15_Witness ==
    /\ pc = "raised"
    /\ err.type = "ParsingError"
    /\ err.line_num = 2
    /\ err.line = input[2]
    /\ Len(input) = 2
-----------------------------------------------------------------------------
\* what to_xml returns for the tree of this state when its argument sets
\* iterate in the orders go (gate arguments) and eo (event arguments)
Conversion(go, eo) ==
    FaultTree_to_xml(LaidOutEvents(LaidOut(heap, go), eo), ft, nest)

(* C16. Two conversions of the identical input give the identical result:  *)
(* the gate order toposort_gates returns and the order of the arguments    *)
(* rendered in each gate element are the same whatever order the per-gate  *)
(* argument sets iterate in.                                               *)
C16_HashOrderIndependent ==
    pc = "emitted" =>
        \A go \in Orders(heap), eo \in EventOrders(heap) :
            /\ Conversion(go, eo).sorted_gates = sorted_gates
            /\ Conversion(go, eo).mef_xml = mef_xml
-----------------------------------------------------------------------------
\* the positions in the document of the opening tags of element el
OpeningsOf(el) ==
    {k \in 1..Len(mef_xml) : mef_xml[k].t = "open" /\ mef_xml[k].el = el}

\* the name attributes of those tags, in document order
DefinedNames(el) ==
    LET q == SelectSeq(mef_xml, LAMBDA e : e.t = "open" /\ e.el = el) IN
    [k \in 1..Len(q) |-> q[k].attrs[1][2]]

\* the names the input declares through a branch of interpret_line, in
\* the order of their lines
DeclaredInOrder(branch) ==
    LET q == SelectSeq(input, LAMBDA l : LineClass[l].branch = branch) IN
    [k \in 1..Len(q) |-> LineClass[q[k]].name]

Before(S, T) == \A i \in S, j \in T : i < j

-----------------------------------------------------------------------------
\* the number of paths of exactly d gate-argument steps from gate g to gate c
RECURSIVE PathCount(_, _, _), PathCountFrom(_, _, _, _)
PathCount(g, c, d) ==
    IF d = 0 THEN (IF g = c THEN 1 ELSE 0)
    ELSE PathCountFrom(heap[g].g_order, 1, c, d - 1)
PathCountFrom(q, k, c, d) ==
    IF k > Len(q) THEN 0
    ELSE PathCount(q[k], c, d) + PathCountFrom(q, k + 1, c, d)

RECURSIVE SumSeq(_)
SumSeq(q) == IF q = <<>> THEN 0 ELSE Head(q) + SumSeq(Tail(q))

\* the number of paths of at most n steps from g to c: the times the
\* formula of c is to be written inside the element of g at depth n
PathsWithin(g, c, n) == SumSeq([d \in 1..(n + 1) |-> PathCount(g, c, d - 1)])

\* the by-name references to the object a in the element x
ReferencesTo(x, a) ==
    Len(SelectSeq(x, LAMBDA e : /\ e.t = "empty"
                                /\ e.el \in {"gate", "basic-event", "house-event", "event"}
                                /\ e.attrs = Named(heap[a].name)))

Operators ==
    {"or", "xor", "and", "atleast", "not", "imply", "iff", "cardinality"}

\* the elements of the kinds els opened in the element x
OpenedIn(x, els) == Len(SelectSeq(x, LAMBDA e : e.t = "open" /\ e.el \in els))

\* the <not> elements one writing of the formula of gate r opens itself:
\* its operator, if that is not, and one around each complemented argument
NotsOf(r) ==
    (IF heap[r].operator = "not" THEN 1 ELSE 0)
    + Cardinality(heap[r].complement_arguments)

(* C18. In the element Gate.to_xml(N) writes for a gate g, a gate c is a   *)
(* by-name reference once per path of N + 1 steps from g to c, and the     *)
(* formula of c is written out once per path of at most N steps: depth 0   *)
(* inlines nothing, depth N inlines N further levels, a gate reached along *)
(* two paths within the depth is written once per path; the rendering      *)
(* ends for every N.                                                       *)
C18_Nesting ==
    pc = "emitted" =>
        \A g \in GateRefs :
            LET x == Gate_to_xml(heap, g, nest) IN
            /\ \A c \in GateRefs : ReferencesTo(x, c) = PathCount(g, c, nest + 1)
            /\ \A a \in Refs \ GateRefs :
                    ReferencesTo(x, a) =
                        SumSeq([r \in Refs |->
                                    IF r \in GateRefs /\ a \in Arguments(r)
                                    THEN PathsWithin(g, r, nest) ELSE 0])
            /\ OpenedIn(x, Operators \ {"not"}) =
                    SumSeq([r \in Refs |->
                                IF r \in GateRefs /\ heap[r].operator \notin {"null", "not"}
                                THEN PathsWithin(g, r, nest) ELSE 0])
            /\ OpenedIn(x, {"not"}) =
                    SumSeq([r \in Refs |->
                                IF r \in GateRefs
                                THEN PathsWithin(g, r, nest) * NotsOf(r) ELSE 0])
            /\ nest = 0 =>
                    /\ OpenedIn(x, Operators) = NotsOf(g) +
                            (IF heap[g].operator \in {"null", "not"} THEN 0 ELSE 1)
                    /\ \A c \in heap[g].g_arguments : ReferencesTo(x, c) = 1

\* at depth 2 the formula of a gate that is reached along a path of one
\* step and along a path of two steps has been written twice
C18_Witness ==
    /\ pc = "emitted"
    /\ nest = 2
    /\ \E g, c \in GateRefs :
        /\ PathCount(g, c, 1) = 1
        /\ PathCount(g, c, 2) = 1
        /\ PathsWithin(g, c, nest) = 2
        /\ \E a \in Arguments(c) :
                ReferencesTo(Gate_to_xml(heap, g, nest), a) = 2
-----------------------------------------------------------------------------
\* on a returned tree every declared gate is reachable from a top gate; the
\* sorted list holds every declared gate once; no assertion has failed
C19_Covered ==
    /\ pc \in {"returned", "emitted"} =>
            /\ Range(ft.top_gates) \subseteq Range(ft.gates)
            /\ Range(ft.gates) = ReachFrom(Range(ft.top_gates))
            /\ Range(ft.gates) = GateRefs
    /\ pc = "emitted" =>
            /\ Range(sorted_gates) = Range(ft.gates)
            /\ Len(sorted_gates) = Len(ft.gates)
            /\ Len(sorted_gates) = Cardinality(Range(sorted_gates))
    /\ err.type # "AssertionError"

\* to_xml on a returned tree always gets its sorted list
C19_Sorts == pc = "returned" => pc' = "emitted"

(* C19. For every tree parse_input returns, with or without multi_top,     *)
(* toposort_gates over top_gates returns every declared gate exactly once: *)
(* every declared gate is reachable from a top gate, and neither the       *)
(* in-progress assertion nor the count assertion fails.                    *)
C19_ToposortComplete == []C19_Covered /\ [][C19_Sorts]_vars

\* a multi-top tree of three gates under two top gates has been sorted
C19_Witness ==
    /\ pc = "emitted"
    /\ multi_top
    /\ Len(ft.top_gates) = 2
    /\ Len(sorted_gates) = 3
-----------------------------------------------------------------------------
\* __detect_cycle was entered: populate ran and top-gate selection passed
DetectCycleRan == PopulateRan /\ ft.top_gates # None

\* the gates no top gate reaches
Detached == Range(ft.gates) \ ReachFrom(Range(ft.top_gates))

CycleUnderTop == \E g \in ReachFrom(Range(ft.top_gates)) : OnCycle(g)

(* C20. Whenever a gate is unreachable from every top gate, every such     *)
(* gate lies below a cycle of unreachable gates, and __detect_cycle raises *)
(* FaultTreeError and never returns: when the search from the top gates    *)
(* finds no cycle, the search seeded at the detached gates finds one and   *)
(* reports the detached gates with it.                                     *)
C20_DetachedHaveCycle ==
    (DetectCycleRan /\ Detached # {}) =>
        /\ \A d \in Detached :
                \E c \in Detached : OnCycle(c) /\ d \in ReachFrom({c})
        /\ pc = "raised"
        /\ err.type = "FaultTreeError"
        /\ CycleUnderTop => err.msg = "Detected a cycle"
        /\ ~CycleUnderTop =>
                /\ err.msg = "Detected detached gates that may be in a cycle"
                /\ Range(err.detail[1]) = {heap[d].name : d \in Detached}
                /\ Range(err.detail[2]) \subseteq
                        {heap[d].name : d \in {c \in Detached : OnCycle(c)}}
                /\ Len(err.detail[2]) >= 2

\* under a sound top gate two detached gates name each other
C20_Witness ==
    /\ pc = "raised"
    /\ DetectCycleRan
    /\ Cardinality(Detached) = 2
    /\ ~CycleUnderTop
    /\ err.msg = "Detected detached gates that may be in a cycle"
-----------------------------------------------------------------------------
\* the gates no top gate reaches, in declaration order
DetachedSeeds == SelectSeq(ft.gates, LAMBDA g : g \in Detached)

\* a cycle lies at or below gate g
ReachesCycle(g) == \E c \in ReachFrom({g}) : OnCycle(c)

\* the first detached gate with a cycle at or below it
FirstSeed ==
    DetachedSeeds[CHOOSE i \in 1..Len(DetachedSeeds) :
                    /\ ReachesCycle(DetachedSeeds[i])
                    /\ \A j \in 1..(i - 1) : ~ReachesCycle(DetachedSeeds[j])]

\* gates a and b lie on one cycle together
SameCycle(a, b) ==
    /\ a \in ReachFrom(heap[b].g_arguments)
    /\ b \in ReachFrom(heap[a].g_arguments)

\* __detect_cycle raised its error about detached gates
DetachedReport ==
    /\ DetectCycleRan
    /\ pc = "raised"
    /\ err.msg = "Detected detached gates that may be in a cycle"

\* C21 as stated: the error about detached gates lists the detached gates
\* and reports every cycle among them, so that every detached gate that
\* lies on a cycle is on a reported path.
C21_EveryCycleReported ==
    DetachedReport =>
        /\ err.detail[1] = Names(heap, DetachedSeeds)
        /\ \A c \in Detached :
                OnCycle(c) => heap[c].name \in Range(err.detail[2])

(* C21. When gates are detached from every top gate, the search is re-run  *)
(* seeded at the detached gates in declaration order and stops at the      *)
(* first cycle it discovers: the one FaultTreeError lists the detached      *)
(* gates in declaration order and the path of that one cycle, which lies    *)
(* at or below the first detached gate that has a cycle at or below it;     *)
(* the path is closed and names no gate twice but its ends.                 *)
C21_FirstCycleReported ==
    DetachedReport =>
        /\ err.type = "FaultTreeError"
        /\ err.detail[1] = Names(heap, DetachedSeeds)
        /\ Len(err.detail) = 2
        /\ LET path == err.detail[2] IN
            /\ Range(path) \subseteq {heap[c].name : c \in ReachFrom({FirstSeed})}
            /\ path[1] = path[Len(path)]
            /\ Cardinality(Range(path)) = Len(path) - 1

\* two detached gates each name themselves, and the error has the path of
\* the first only
C21_Witness ==
    /\ DetachedReport
    /\ \E a, b \in Detached :
            /\ OnCycle(a) /\ OnCycle(b) /\ ~SameCycle(a, b)
            /\ heap[a].name \in Range(err.detail[2])
            /\ heap[b].name \notin Range(err.detail[2])
-----------------------------------------------------------------------------
\* Gate.num_arguments, the count over the four collections (LateBindingGate
\* overrides it with the count of tokens)
Gate_num_arguments(o) ==
    Cardinality(o.b_arguments) + Cardinality(o.h_arguments)
    + Cardinality(o.g_arguments) + Cardinality(o.u_arguments)

\* the names gate g's tokens give both plain and with the marker
Cancelled(g) ==
    {tok \in Range(heap[g].event_arguments) :
        <<"~">> \o tok \in Range(heap[g].event_arguments)}

\* C22 as stated: every declared gate passed the duplicate-token check, and
\* after populate its number of resolved arguments equals its number of raw
\* argument tokens.
C22_OneObjectPerToken ==
    PopulateRan =>
        \A g \in Range(ft.gates) :
            Gate_num_arguments(heap[g]) = Len(heap[g].event_arguments)

(* C22. After populate, for a gate that passed the duplicate-token check,  *)
(* two tokens resolve to the same object exactly when one is the other     *)
(* with the complement marker; that object is attached once, so the gate's *)
(* number of resolved arguments is its number of raw argument tokens less  *)
(* the number of names it gives both plain and complemented.                *)
C22_OneObjectPerName ==
    PopulateRan =>
        \A g \in Range(ft.gates) :
            LET toks == heap[g].event_arguments IN
            /\ {heap[a].name : a \in Arguments(g)} =
                    {LStripSet(toks[i], {"~"}) : i \in 1..Len(toks)}
            /\ Gate_num_arguments(heap[g]) = Len(toks) - Cardinality(Cancelled(g))
            /\ Arguments(g) = {Resolved(toks[i]) : i \in 1..Len(toks)}
            /\ \A i, j \in 1..Len(toks) :
                    (i # j /\ Resolved(toks[i]) = Resolved(toks[j])) <=>
                        (toks[i] = <<"~">> \o toks[j] \/ toks[j] = <<"~">> \o toks[i])

\* a returned tree whose gate names one event plain and complemented
C22_Witness ==
    /\ pc = "returned"
    /\ \E g \in Range(ft.gates) :
            /\ Len(heap[g].event_arguments) = 2
            /\ Cardinality(Cancelled(g)) = 1
            /\ Gate_num_arguments(heap[g]) = 1
-----------------------------------------------------------------------------
\* __detect_cycle raised for a cycle, under a top gate or detached
CycleReport ==
    /\ DetectCycleRan
    /\ pc = "raised"
    /\ err.msg \in {"Detected a cycle",
                    "Detected detached gates that may be in a cycle"}

ReportedPath == IF err.msg = "Detected a cycle" THEN err.detail ELSE err.detail[2]

GateNamed(n) == ft.t_gates[n]

\* the list __visit handed to __raise_cycle: __detect_cycle changes nothing
\* but the marks, which were None when it began
RawCycle ==
    LET h0   == Marked(heap, ft.gates, "None")
        tops == VisitEach(h0, ft.top_gates, 1)
    IN  IF tops.cycle # None THEN tops.cycle
        ELSE VisitEach(tops.heap, DetachedGates(tops.heap, ft), 1).cycle

\* the gate that was revisited while in progress
Repeated == RawCycle[1]

\* the names of the gates whose __visit was active then, outermost first
CallStack == Reverse(Tail(RawCycle))

\* the gates left in progress
InProgress == {g \in Range(ft.gates) : heap[g].mark = "temp"}

(* C23. When the cycle search revisits a gate in progress, the path of the *)
(* FaultTreeError is a cycle of the gate graph, top-down: it starts and    *)
(* ends with the repeated gate, every consecutive pair (x, y) is an edge   *)
(* 'gate x has gate argument y', and it is the call stack from the         *)
(* repeated gate down, so that no gate above the repeated gate on the call *)
(* stack is in it.                                                          *)
C23_RealCycle ==
    CycleReport =>
        LET path == ReportedPath
            p    == IndexOf(CallStack, Repeated)
        IN  /\ Len(path) >= 2
            /\ path[1] = Repeated
            /\ path[Len(path)] = Repeated
            /\ \A i \in 1..(Len(path) - 1) :
                    GateNamed(path[i + 1]) \in heap[GateNamed(path[i])].g_arguments
            /\ {heap[g].name : g \in InProgress} = Range(CallStack)
            /\ \A i \in 1..(p - 1) : CallStack[i] \notin Range(path)
            /\ path = SubSeq(CallStack, p, Len(CallStack)) \o <<Repeated>>

\* a cycle of two gates under the top gate: the top gate was on the call
\* stack and is not on the path
C23_Witness ==
    /\ CycleReport
    /\ err.msg = "Detected a cycle"
    /\ Len(CallStack) = 3
    /\ IndexOf(CallStack, Repeated) = 2
    /\ Len(ReportedPath) = 3
-----------------------------------------------------------------------------
\* the values a gate's mark takes
MarkValues == {"None", "", "temp", "perm"}

\* the marks the gates can carry when toposort_gates is called
Markings == [Range(ft.gates) -> MarkValues]

\* the heap with the gates marked as mk says
Remarked(h, mk) ==
    [g \in 1..Len(h) |-> IF g \in DOMAIN mk THEN [h[g] EXCEPT !.mark = mk[g]] ELSE h[g]]

\* object o without the fields that lay out its sets' iteration orders
Fields(o) == [o EXCEPT !.b_order = <<>>, !.h_order = <<>>, !.u_order = <<>>]

\* on a returned tree every gate carries the done mark of the cycle
\* detection, and toposort_gates gives one sequence and one heap, with the
\* marks None, whatever marks the gates carry
C24_AnyMarks ==
    pc = "returned" =>
        /\ \A g \in Range(ft.gates) : heap[g].mark = "perm"
        /\ LET base == toposort_gates(heap, ft.top_gates, ft.gates) IN
            \A mk \in Markings :
                LET r == toposort_gates(Remarked(heap, mk), ft.top_gates, ft.gates) IN
                /\ r.exc = NoError
                /\ r.sorted_gates = base.sorted_gates
                /\ r.heap = Marked(heap, ft.gates, "None")

\* the step of to_xml: the sequence is the one toposort_gates gives, every
\* gate's mark is None afterwards, and no other field of any object changes
C24_Step ==
    pc = "returned" =>
        /\ pc' = "emitted"
        /\ sorted_gates' = toposort_gates(heap, ft.top_gates, ft.gates).sorted_gates
        /\ Len(heap') = Len(heap)
        /\ \A g \in Range(ft.gates) : heap'[g].mark = "None"
        /\ \A o \in 1..Len(heap) :
                Fields([heap'[o] EXCEPT !.mark = "None"])
                    = Fields([heap[o] EXCEPT !.mark = "None"])
        /\ ft' = ft

(* C24. toposort_gates resets the marks before it uses them: it returns    *)
(* the same sequence whatever marks the gates carry when it is called, in  *)
(* particular the done marks a successful cycle detection leaves on every  *)
(* gate; when it returns every gate's mark is None; it changes nothing     *)
(* else on any gate.                                                        *)
C24_OwnMarks == []C24_AnyMarks /\ [][C24_Step]_vars

\* a tree of three gates, all left done by the cycle detection, has been
\* sorted and its marks are None
C24_Witness ==
    /\ pc = "emitted"
    /\ Len(sorted_gates) = 3
    /\ \A g \in Range(ft.gates) : heap[g].mark = "None"
-----------------------------------------------------------------------------
\* the objects of one kind
OfKind(k) == {r \in Refs : heap[r].kind = k}

\* the argument collections of g that hold something
FilledCollections(g) ==
    {c \in {heap[g].g_arguments, heap[g].b_arguments,
            heap[g].h_arguments, heap[g].u_arguments} : c # {}}

(* C25. After populate the parent sets mirror the argument collections:    *)
(* for every gate g and every gate or event e, g is in e's parents iff e   *)
(* is in one of g's four argument collections; every argument sits in the  *)
(* one collection of its kind and in no other; every member of g's         *)
(* complement set is one of g's arguments; only gates are parents and only *)
(* gates hold arguments.                                                    *)
C25_ParentsMirrorArguments ==
    PopulateRan =>
        /\ \A g \in GateRefs, e \in Refs :
                g \in heap[e].parents <=> e \in Arguments(g)
        /\ \A g \in GateRefs :
                /\ heap[g].g_arguments \subseteq OfKind("Gate")
                /\ heap[g].b_arguments \subseteq OfKind("BasicEvent")
                /\ heap[g].h_arguments \subseteq OfKind("HouseEvent")
                /\ heap[g].u_arguments \subseteq OfKind("Event")
                /\ heap[g].complement_arguments \subseteq Arguments(g)
        /\ \A e \in Refs :
                /\ heap[e].parents \subseteq GateRefs
                /\ e \notin GateRefs =>
                        Arguments(e) = {} /\ heap[e].complement_arguments = {}

\* a returned tree with a gate whose arguments are of three kinds, one of
\* them complemented, each with the gate as its parent
C25_Witness ==
    /\ pc = "returned"
    /\ \E g \in GateRefs :
            /\ Cardinality(FilledCollections(g)) = 3
            /\ heap[g].complement_arguments # {}
            /\ \A a \in Arguments(g) : g \in heap[a].parents
====
